---- MODULE Spec2Model ----
(***************************************************************************)
(* State-machine model of the native PDF printing plugin of tidycode       *)
(* (tauri-plugin-native-pdf-print): the Windows raster print pipeline, the *)
(* fire-and-forget print entry point, the printer / media directory caches *)
(* of the Windows backend and the uncached enumeration of the Linux        *)
(* backend; with it, the application's macOS print script and filename     *)
(* sanitizer and recent files list (src-tauri) and the wasm module's file  *)
(* buffers (src-wasm).                                                     *)
(*                                                                         *)
(* Ten specifications share the module.  SpecPrint runs a print request    *)
(* on either backend; SpecCache runs the directory calls of one caller     *)
(* against a clock; SpecThreads runs the directory calls of two concurrent *)
(* callers at one instant and SpecRace the get_printers calls of two       *)
(* concurrent callers against the clock; SpecStage runs print_pdf_bytes    *)
(* calls that stage a base64 payload in a temporary file; SpecDispatch     *)
(* runs one caller's calls of the five operations on every build target;   *)
(* SpecPreview runs the application's macOS print script against Preview   *)
(* and its user; SpecWasm runs the wasm module's file buffer store;        *)
(* SpecRecent runs the application's recent files list; SpecCalc applies   *)
(* the pure computations (raster size, fit, spooler output parsing, the lp *)
(* command line, FileBuffer, sanitize_filename, the temporary PDF path) to *)
(* bounded inputs.  Each holds the variables of the others at their        *)
(* initial value.                                                          *)
(***************************************************************************)
EXTENDS Integers, Sequences, FiniteSets, TLC

VARIABLES
    file,           \* what the request's path names: "missing" | "file" | "dir" | "removed"
    req,            \* the print_pdf call of the request
    worker,         \* the detached thread that runs print_pdf_sync for it
    target,         \* backend compiled in: "windows" | "linux"
    now,            \* monotonic clock (Instant), in seconds
    PRINTER_CACHE,  \* Option<Cache<Vec<PrinterInfo>>>
    MEDIA_CACHE,    \* HashMap<String, Cache<Vec<MediaOption>>>
    printerLock,    \* holder of the PRINTER_CACHE mutex, 0 when free
    mediaLock,      \* holder of the MEDIA_CACHE mutex, 0 when free
    thr,            \* threads running directory calls: thread -> frame
    lastOk,         \* per key, when a call last returned Ok (observation)
    lp,             \* the print_pdf call of the Linux backend
    ms,             \* wall clock (SystemTime), in milliseconds since the epoch
    tmp,            \* the temporary directory: path -> bytes of the file, or NoFile
    calls,          \* threads running print_pdf_bytes: thread -> frame
    calc,           \* the last evaluation of one of the backends' pure computations
    preview,        \* macOS: the osascript child and the Preview application it drives
    wasm,           \* the wasm module's statics: NEXT_FILE_ID, FILE_BUFFERS
    recent          \* src-tauri: RecentFilesState and the last call made on it

vars == <<file, req, worker, target, now, PRINTER_CACHE, MEDIA_CACHE,
          printerLock, mediaLock, thr, lastOk, lp, ms, tmp, calls, calc,
          preview, wasm, recent>>

printVars == <<file, req, worker, lp>>
stageVars == <<ms, tmp, calls>>
appVars == <<preview, wasm, recent>>
cacheVars == <<target, now, PRINTER_CACHE, MEDIA_CACHE, printerLock,
               mediaLock, thr, lastOk>>

(***************************************************************************)
(* Bounds of the model.                                                    *)
(***************************************************************************)
MaxPages == 2
MaxTime == 62

None == "None"

Max(a, b) == IF a > b THEN a ELSE b
Min(a, b) == IF a < b THEN a ELSE b

\* round() of the non-negative quotient n / d, halves away from zero
RoundDiv(n, d) == (2 * n + d) \div (2 * d)

(***************************************************************************)
(* Results.  A message is the sequence of the pieces format! concatenates; *)
(* an Option<u32> is the empty or the one-element sequence.                *)
(***************************************************************************)
NoJob == <<>>
SomeJob(id) == <<id>>

PrintResult(job_id, printer, message) ==
    [job_id |-> job_id, printer |-> printer, message |-> message]

Pending ==
    [ok |-> FALSE, error |-> "pending", message |-> <<>>,
     value |-> PrintResult(NoJob, "", "")]
Ok(value) == [ok |-> TRUE, error |-> "", message |-> <<>>, value |-> value]
Err(kind, message) ==
    [ok |-> FALSE, error |-> kind, message |-> message,
     value |-> PrintResult(NoJob, "", "")]
PrintCommandFailed(message) == Err("PrintCommandFailed", message)

(***************************************************************************)
(* Windows: print_pdf, the entry point that queues the detached worker.    *)
(***************************************************************************)
PathKinds == {"missing", "file", "dir"}

\* Path::exists: true of a file and of a directory
PathExists(kind) == kind \in {"file", "dir"}

\* one platform call made by the worker, in program order
Call(op, page, ok) ==
    [op |-> op, page |-> page, ok |-> ok, w |-> 0, h |-> 0, err |-> ""]
RenderCall(op, page, ok, w, h, err) ==
    [op |-> op, page |-> page, ok |-> ok, w |-> w, h |-> h, err |-> err]

IdleWorker ==
    [pc |-> "idle", spawned |-> 0, printer |-> None, remove_after_print |-> FALSE,
     com_guard |-> FALSE, page_count |-> 0, index |-> 0,
     render_dpi_x |-> 0, render_dpi_y |-> 0,
     target_w |-> 0, target_h |-> 0, page_w |-> 0, page_h |-> 0,
     first_error |-> "", second_error |-> "",
     width |-> 0, height |-> 0,
     log |-> <<>>, result |-> Pending]

NewRequest ==
    [state |-> "new", printer_name |-> None, path_exists |-> FALSE,
     default |-> None, os |-> <<>>, result |-> Pending]

\* thread::spawn of the closure that runs print_pdf_sync
SpawnWorker_not(w, printer, remove) == w
SpawnWorker(w, printer, remove) ==
    [w EXCEPT !.pc = "start", !.spawned = w.spawned + 1,
              !.printer = printer, !.remove_after_print = remove]

\* a plausible slip: the default printer is looked up first and preferred
print_pdf_default_first ==
    /\ target = "windows"
    /\ req.state = "new"
    /\ \E printer_name \in {"PrinterA", None},
          default \in {"PrinterB", None},
          remove \in BOOLEAN :
        LET queried == PathExists(file)
            printer == IF default # None THEN default ELSE printer_name
            os == IF queried THEN <<"GetDefaultPrinterW">> ELSE <<>>
            rec(res) == [state |-> "returned", printer_name |-> printer_name,
                         path_exists |-> PathExists(file),
                         default |-> IF queried THEN default ELSE None,
                         os |-> os, result |-> res]
        IN  IF ~PathExists(file)
            THEN /\ req' = rec(PrintCommandFailed(<<"PDF path does not exist">>))
                 /\ UNCHANGED worker
            ELSE IF printer = None
            THEN /\ req' = rec(Err("PrinterLookupFailed", <<"No default printer configured">>))
                 /\ UNCHANGED worker
            ELSE /\ worker' = SpawnWorker(worker, printer, remove)
                 /\ req' = rec(Ok(PrintResult(NoJob, printer, "Print job submitted (async)")))
    /\ UNCHANGED file
    /\ UNCHANGED <<lp, cacheVars, stageVars, calc, appVars>>

print_pdf ==
    /\ target = "windows"
    /\ req.state = "new"
    /\ \E printer_name \in {"PrinterA", None},
          default \in {"PrinterB", None},
          remove \in BOOLEAN :
        LET queried == PathExists(file) /\ printer_name = None
            printer == IF printer_name # None THEN printer_name ELSE default
            os == IF queried THEN <<"GetDefaultPrinterW">> ELSE <<>>
            rec(res) == [state |-> "returned", printer_name |-> printer_name,
                         path_exists |-> PathExists(file),
                         default |-> IF queried THEN default ELSE None,
                         os |-> os, result |-> res]
        IN  IF ~PathExists(file)
            THEN /\ req' = rec(PrintCommandFailed(<<"PDF path does not exist">>))
                 /\ UNCHANGED worker
            ELSE IF printer = None
            THEN /\ req' = rec(Err("PrinterLookupFailed", <<"No default printer configured">>))
                 /\ UNCHANGED worker
            ELSE /\ worker' = SpawnWorker(worker, printer, remove)
                 /\ req' = rec(Ok(PrintResult(NoJob, printer, "Print job submitted (async)")))
    /\ UNCHANGED file
    /\ UNCHANGED <<lp, cacheVars, stageVars, calc, appVars>>

(***************************************************************************)
(* Windows: print_pdf_sync, run by the worker one platform call at a time. *)
(* Every call is logged with its outcome; a return drops the ComGuard,     *)
(* which calls CoUninitialize.                                             *)
(***************************************************************************)
MAX_RENDER_DPI == 150
MAX_RENDER_DIM == 2000

DeviceDpis == {96, 600}                       \* LOGPIXELSX = LOGPIXELSY
PageSizes == {<<612, 792>>, <<1440, 2880>>}   \* PdfPage::Size
RenderErrors == {"E_FAIL", "E_OUTOFMEMORY"}   \* texts of a failed render

\* the frame after `return res` with the calls `log` made: locals are dropped
Return(w, log, res) ==
    [w EXCEPT !.pc = "done", !.result = res,
              !.log = IF w.com_guard
                      THEN Append(log, Call("CoUninitialize", -1, TRUE))
                      ELSE log]

\* the exit of a `?` on a failed call `op`
Propagate(w, op, page, message) ==
    Return(w, Append(w.log, Call(op, page, FALSE)), PrintCommandFailed(message))

\* the loop header `for index in 0..page_count`
\* a plausible slip: the loop body runs once whatever the page count
LoopPc_once(index, page_count) == IF index < 1 THEN "get_page" ELSE "end_doc"
LoopPc(index, page_count) == IF index < page_count THEN "get_page" ELSE "end_doc"

\* lines 210-219: the raster size of a page, capped at MAX_RENDER_DIM
TargetDim(points, dpi) == Max(RoundDiv(points * dpi, 72), 1)
\* a plausible slip: each axis is capped on its own
ScaledDim_own(dim, tw, th) == Min(dim, MAX_RENDER_DIM)
ScaledDim(dim, tw, th) == Max(RoundDiv(dim * MAX_RENDER_DIM, Max(tw, th)), 1)
TargetSize(size, dpi_x, dpi_y) ==
    LET tw == TargetDim(size[1], dpi_x)
        th == TargetDim(size[2], dpi_y)
    IN  IF tw > MAX_RENDER_DIM \/ th > MAX_RENDER_DIM
        THEN <<ScaledDim(tw, tw, th), ScaledDim(th, tw, th)>>
        ELSE <<tw, th>>

WorkerStep(w2) ==
    /\ worker' = w2
    /\ UNCHANGED <<file, req>>
    /\ UNCHANGED <<lp, cacheVars, stageVars, calc, appVars>>

CoInitialize ==
    /\ worker.pc = "start"
    /\ \E ok \in BOOLEAN :
        IF ok
        THEN WorkerStep([worker EXCEPT !.pc = "load", !.com_guard = TRUE,
                            !.log = Append(@, Call("CoInitializeEx", -1, TRUE))])
        ELSE WorkerStep(Propagate(worker, "CoInitializeEx", -1, <<"Failed to init COM: ", "hr">>))

LoadDocument ==
    /\ worker.pc = "load"
    /\ \E ok \in BOOLEAN, page_count \in 0..MaxPages :
        IF ok /\ file = "file"
        THEN WorkerStep([worker EXCEPT !.pc = "create_dc", !.page_count = page_count,
                            !.log = Append(@, Call("LoadFromFileAsync", -1, TRUE))])
        ELSE WorkerStep(Propagate(worker, "LoadFromFileAsync", -1, <<"load">>))

CreateDC ==
    /\ worker.pc = "create_dc"
    /\ \E ok \in BOOLEAN :
        IF ok
        THEN WorkerStep([worker EXCEPT !.pc = "device_caps",
                            !.log = Append(@, Call("CreateDCW", -1, TRUE))])
        ELSE WorkerStep(Propagate(worker, "CreateDCW", -1, <<"Failed to create printer DC">>))

DeviceCaps ==
    /\ worker.pc = "device_caps"
    /\ \E dpi \in DeviceDpis :
        WorkerStep([worker EXCEPT !.pc = "start_doc",
                       !.render_dpi_x = Min(dpi, MAX_RENDER_DPI),
                       !.render_dpi_y = Min(dpi, MAX_RENDER_DPI),
                       !.log = Append(@, Call("GetDeviceCaps", -1, TRUE))])

StartDoc ==
    /\ worker.pc = "start_doc"
    /\ \E ok \in BOOLEAN :
        IF ok
        THEN WorkerStep([worker EXCEPT !.pc = LoopPc(0, worker.page_count), !.index = 0,
                            !.log = @ \o <<Call("StartDocW", -1, TRUE),
                                           Call("SetStretchBltMode", -1, TRUE)>>])
        ELSE WorkerStep(Return(worker,
                 worker.log \o <<Call("StartDocW", -1, FALSE), Call("DeleteDC", -1, TRUE)>>,
                 PrintCommandFailed(<<"Failed to start GDI print job (error ", "code", ")">>)))

GetPage ==
    /\ worker.pc = "get_page"
    /\ \E ok \in BOOLEAN :
        IF ok
        THEN WorkerStep([worker EXCEPT !.pc = "page_size",
                            !.log = Append(@, Call("GetPage", worker.index, TRUE))])
        ELSE WorkerStep(Propagate(worker, "GetPage", worker.index, <<"GetPage">>))

PageSize ==
    /\ worker.pc = "page_size"
    /\ \E ok \in BOOLEAN, size \in PageSizes :
        IF ok
        THEN LET t == TargetSize(size, worker.render_dpi_x, worker.render_dpi_y)
             IN  WorkerStep([worker EXCEPT !.pc = "render_first",
                                !.page_w = size[1], !.page_h = size[2],
                                !.target_w = t[1], !.target_h = t[2],
                                !.log = Append(@, Call("Size", worker.index, TRUE))])
        ELSE WorkerStep(Propagate(worker, "Size", worker.index, <<"Size">>))

(***************************************************************************)
(* render_page_to_bgra: the nested matches of lines 621-649, then the      *)
(* decoding of the stream into a BGRA pixel buffer.                        *)
(***************************************************************************)
ReducedDim(dim) == Max(dim \div 2, 1)

RenderFailedMessage_swapped(first_error, second_error, third_error) ==
    <<"Render failed after retries: ", third_error, "; ", second_error, "; ", first_error>>
RenderFailedMessage(first_error, second_error, third_error) ==
    <<"Render failed after retries: ", first_error, "; ", second_error, "; ", third_error>>

\* the stream of a successful render, handed to the decoder
Rendered(w, entry) ==
    [w EXCEPT !.pc = "decode", !.width = entry.w, !.height = entry.h,
              !.log = Append(@, entry)]

RenderFirst ==
    /\ worker.pc = "render_first"
    /\ \E ok \in BOOLEAN, e \in RenderErrors :
        LET entry == RenderCall("RenderWithOptions", worker.index, ok,
                                worker.target_w, worker.target_h, IF ok THEN "" ELSE e)
        IN  IF ok
            THEN WorkerStep(Rendered(worker, entry))
            ELSE WorkerStep([worker EXCEPT !.pc = "render_reduced", !.first_error = e,
                                !.log = Append(@, entry)])

RenderReduced ==
    /\ worker.pc = "render_reduced"
    /\ \E ok \in BOOLEAN, e \in RenderErrors :
        LET entry == RenderCall("RenderWithOptions", worker.index, ok,
                                ReducedDim(worker.target_w), ReducedDim(worker.target_h),
                                IF ok THEN "" ELSE e)
        IN  IF ok
            THEN WorkerStep(Rendered(worker, entry))
            ELSE WorkerStep([worker EXCEPT !.pc = "render_default", !.second_error = e,
                                !.log = Append(@, entry)])

RenderDefault ==
    /\ worker.pc = "render_default"
    /\ \E ok \in BOOLEAN, e \in RenderErrors :
        LET entry == RenderCall("RenderDefault", worker.index, ok,
                                worker.page_w, worker.page_h, IF ok THEN "" ELSE e)
        IN  IF ok
            THEN WorkerStep(Rendered(worker, entry))
            ELSE WorkerStep(Return(worker, Append(worker.log, entry),
                     PrintCommandFailed(
                         RenderFailedMessage(worker.first_error, worker.second_error, e))))

Decode ==
    /\ worker.pc = "decode"
    /\ \E ok \in BOOLEAN :
        IF ok
        THEN WorkerStep([worker EXCEPT !.pc = "start_page",
                            !.first_error = "", !.second_error = "",
                            !.log = Append(@, Call("BitmapDecoder", worker.index, TRUE))])
        ELSE WorkerStep(Propagate(worker, "BitmapDecoder", worker.index, <<"decode">>))

(***************************************************************************)
(* The GDI page: StartPage, StretchDIBits, EndPage, and the job end.       *)
(***************************************************************************)
StartPage ==
    /\ worker.pc = "start_page"
    /\ \E ok \in BOOLEAN :
        IF ok
        THEN WorkerStep([worker EXCEPT !.pc = "stretch",
                            !.log = Append(@, Call("StartPage", worker.index, TRUE))])
        ELSE WorkerStep(Return(worker,
                 worker.log \o <<Call("StartPage", worker.index, FALSE),
                                 Call("EndDoc", -1, TRUE), Call("DeleteDC", -1, TRUE)>>,
                 PrintCommandFailed(<<"Failed to start GDI page">>)))

StretchDIBits ==
    /\ worker.pc = "stretch"
    /\ \E ok \in BOOLEAN :
        IF ok
        THEN WorkerStep([worker EXCEPT !.pc = "end_page",
                            !.log = Append(@, Call("StretchDIBits", worker.index, TRUE))])
        ELSE WorkerStep(Return(worker,
                 worker.log \o <<Call("StretchDIBits", worker.index, FALSE),
                                 Call("EndPage", worker.index, TRUE),
                                 Call("EndDoc", -1, TRUE), Call("DeleteDC", -1, TRUE)>>,
                 PrintCommandFailed(<<"Failed to render page to printer (error ", "code", ")">>)))

EndPage ==
    /\ worker.pc = "end_page"
    /\ \E ok \in BOOLEAN :
        IF ok
        THEN WorkerStep([worker EXCEPT !.pc = LoopPc(worker.index + 1, worker.page_count),
                            !.index = worker.index + 1,
                            !.width = 0, !.height = 0,
                            !.log = Append(@, Call("EndPage", worker.index, TRUE))])
        ELSE WorkerStep(Return(worker,
                 worker.log \o <<Call("EndPage", worker.index, FALSE),
                                 Call("EndDoc", -1, TRUE), Call("DeleteDC", -1, TRUE)>>,
                 PrintCommandFailed(<<"Failed to end GDI page">>)))

\* a plausible slip: the file is removed whether or not it was asked for
RemoveAfterPrint_always(remove_after_print, removed, kind) ==
    IF removed THEN "removed" ELSE kind

\* `if options.remove_after_print { let _ = fs::remove_file(&path); }`:
\* what the path names afterwards
RemoveAfterPrint(remove_after_print, removed, kind) ==
    IF remove_after_print /\ removed THEN "removed" ELSE kind

EndDoc ==
    /\ worker.pc = "end_doc"
    /\ \E ok \in BOOLEAN, removed \in BOOLEAN :
        LET log == worker.log \o <<Call("EndDoc", -1, ok), Call("DeleteDC", -1, TRUE)>>
        IN  IF ~ok
            THEN WorkerStep(Return(worker, log,
                     PrintCommandFailed(<<"Failed to finalize GDI print job (error ", "code", ")">>)))
            ELSE /\ worker' = Return(worker,
                        IF worker.remove_after_print
                        THEN Append(log, Call("remove_file", -1, removed))
                        ELSE log,
                        Ok(PrintResult(SomeJob(1), worker.printer, "GDI print submitted")))
                 /\ file' = RemoveAfterPrint(worker.remove_after_print, removed, file)
                 /\ UNCHANGED req
                 /\ UNCHANGED <<lp, cacheVars, stageVars, calc, appVars>>

(***************************************************************************)
(* The printer / media directory.  Threads (the blocking pool that serves  *)
(* the commands) run get_printers and get_printer_media of the backend     *)
(* compiled in.  An Option<Cache<T>> is the empty or one-element sequence. *)
(***************************************************************************)
CACHE_TTL == 30

Threads == {1, 2}
Targets == {"windows", "linux"}
TickSteps == {29, 30, 31}                 \* seconds the clock may advance by
MediaKeys == {"PrinterA", "PrinterB"}
OSDefaultPrinters == {None, "PrinterA"}   \* outcomes of the default-printer query
OSPrinterNames == {<<"PrinterA">>, <<"">>}    \* pPrinterName of the PRINTER_INFO_4W read
OSFormNames == {<<"A4">>, <<"">>}             \* pName of the FORM_INFO_1W read

Cache(value, fetched_at) == [value |-> value, fetched_at |-> fetched_at]

PrinterInfo(name, is_default, status) ==
    [name |-> name, is_default |-> is_default, status |-> status]
MediaOption(id, label, is_default) ==
    [id |-> id, is_default |-> is_default, label |-> label]

DirPending == [ok |-> FALSE, error |-> "pending", value |-> <<>>]
DirOk(value) == [ok |-> TRUE, error |-> "", value |-> value]
PrinterLookupFailed == [ok |-> FALSE, error |-> "PrinterLookupFailed", value |-> <<>>]

IdleThread ==
    [pc |-> "idle", op |-> "", arg |-> None, name |-> "", default_printer |-> "",
     hit |-> FALSE, at |-> -1, recent |-> FALSE, stored |-> FALSE,
     enum_at |-> -1, read_at |-> -1,
     os |-> <<>>, result |-> <<>>, ret |-> DirPending]

\* line 690 / 712: entry.fetched_at.elapsed() <= CACHE_TTL
CacheLive_strict(entry, t) == t - entry.fetched_at < CACHE_TTL
CacheLive(entry, t) == t - entry.fetched_at <= CACHE_TTL

\* what get_cached_printers / get_cached_media return for the entry they find
Cached(entry, t) ==
    IF entry # <<>> /\ CacheLive(entry[1], t) THEN <<entry[1].value>> ELSE <<>>

\* the MutexGuard is dropped when the cache function returns: the mutex is free
KeepGuard(t) == t
DropGuard(t) == 0

\* the frame of a call that returned `ret`: its locals are gone
Returned(f, ret) ==
    [f EXCEPT !.pc = "done", !.ret = ret, !.default_printer = "", !.result = <<>>]

\* lib.rs: the backend of the build target serves the call
EntryPc_windows(op) ==
    IF op = "get_printers" THEN "get_cached_printers" ELSE "media_target"
EntryPc(op) ==
    IF target = "windows"
    THEN (IF op = "get_printers" THEN "get_cached_printers" ELSE "media_target")
    ELSE IF target = "linux"
    THEN (IF op = "get_printers" THEN "lpstat_p" ELSE "lpoptions")
    ELSE "unsupported"

\* lastOk also keeps, per cache key, when the enumeration began whose result
\* the key's entry holds
EnumKey(key) ==
    CASE key = "printers" -> "enum:printers"
      [] key = "PrinterA" -> "enum:PrinterA"
      [] key = "PrinterB" -> "enum:PrinterB"
LastKeys == MediaKeys \cup {"printers"} \cup {EnumKey(k) : k \in MediaKeys \cup {"printers"}}

Recent(key) == lastOk[key] >= 0 /\ now - lastOk[key] <= CACHE_TTL

BeginCall(t) ==
    /\ thr[t].pc \in {"idle", "done"}
    /\ \E op \in {"get_printers", "get_printer_media"}, arg \in MediaKeys \cup {None} :
        /\ op = "get_printers" => arg = None
        /\ thr' = [thr EXCEPT ![t] =
                [IdleThread EXCEPT !.pc = EntryPc(op), !.op = op, !.arg = arg,
                    !.recent = IF op = "get_printers" THEN Recent("printers")
                               ELSE arg # None /\ Recent(arg)]]
    /\ UNCHANGED <<target, now, PRINTER_CACHE, MEDIA_CACHE, printerLock, mediaLock, lastOk>>
    /\ UNCHANGED <<printVars, stageVars, calc, appVars>>

Tick(steps) ==
    /\ \E d \in steps :
        /\ now + d <= MaxTime
        /\ now' = now + d
    /\ UNCHANGED <<target, PRINTER_CACHE, MEDIA_CACHE, printerLock, mediaLock, thr, lastOk>>
    /\ UNCHANGED <<printVars, stageVars, calc, appVars>>

(***************************************************************************)
(* Windows: get_default_printer, as the calls it makes and what it returns.*)
(***************************************************************************)
\* the size query and the read: None when no size is reported or the read fails
get_default_printer(needed, success, name) ==
    IF needed /\ success THEN name ELSE None

ThreadStep(t, f) ==
    /\ thr' = [thr EXCEPT ![t] = f]
    /\ UNCHANGED <<target, now>>
    /\ UNCHANGED <<printVars, stageVars, calc, appVars>>

(***************************************************************************)
(* Windows: get_printers with get_cached_printers and set_cached_printers. *)
(***************************************************************************)
LockForGetCachedPrinters(t) ==
    /\ thr[t].pc = "get_cached_printers"
    /\ printerLock = 0
    /\ printerLock' = t
    /\ ThreadStep(t, [thr[t] EXCEPT !.pc = "get_cached_printers_locked"])
    /\ UNCHANGED <<PRINTER_CACHE, MEDIA_CACHE, mediaLock, lastOk>>

\* line 694: an entry that is not served is dropped
PrintersAfterLookup(cache, cached) == IF cached = <<>> THEN <<>> ELSE cache

\* lines 357-359: a cached list is returned at once
OnCachedPrinters(f, cached) ==
    IF cached # <<>>
    THEN Returned([f EXCEPT !.hit = TRUE], DirOk(cached[1]))
    ELSE [f EXCEPT !.pc = "default_printer"]

get_cached_printers(t) ==
    /\ thr[t].pc = "get_cached_printers_locked"
    /\ printerLock = t
    /\ LET cached == Cached(PRINTER_CACHE, now)
       IN  /\ ThreadStep(t, OnCachedPrinters([thr[t] EXCEPT !.at = now], cached))
           /\ PRINTER_CACHE' = PrintersAfterLookup(PRINTER_CACHE, cached)
    /\ printerLock' = DropGuard(t)
    /\ UNCHANGED <<MEDIA_CACHE, mediaLock, lastOk>>

PrintersDefault(t) ==
    /\ thr[t].pc = "default_printer"
    /\ \E needed \in BOOLEAN, success \in BOOLEAN, name \in OSDefaultPrinters \ {None} :
        LET d == get_default_printer(needed, success, name)
        IN  ThreadStep(t, [thr[t] EXCEPT !.pc = "enum_printers_size",
                              !.default_printer = IF d = None THEN "" ELSE d,
                              !.os = Append(@, "GetDefaultPrinterW")])
    /\ UNCHANGED <<PRINTER_CACHE, MEDIA_CACHE, printerLock, mediaLock, lastOk>>

\* lines 400-414: the PrinterInfo of every non-empty name
PrintersOf(names, default_printer) ==
    LET kept == SelectSeq(names, LAMBDA n : n # "")
    IN  [i \in 1..Len(kept) |->
            PrinterInfo(kept[i], default_printer # "" /\ kept[i] = default_printer, "unknown")]

EnumPrintersSize(t) ==
    /\ thr[t].pc = "enum_printers_size"
    /\ \E needed \in BOOLEAN :
        IF needed
        THEN /\ ThreadStep(t, [thr[t] EXCEPT !.pc = "enum_printers", !.enum_at = now,
                                  !.os = Append(@, "EnumPrintersW")])
             /\ UNCHANGED lastOk
        ELSE /\ ThreadStep(t, Returned([thr[t] EXCEPT !.os = Append(@, "EnumPrintersW")],
                                       DirOk(<<>>)))
             /\ lastOk' = [lastOk EXCEPT !["printers"] = now]
    /\ UNCHANGED <<PRINTER_CACHE, MEDIA_CACHE, printerLock, mediaLock>>

EnumPrinters(t) ==
    /\ thr[t].pc = "enum_printers"
    /\ \E success \in BOOLEAN, names \in OSPrinterNames :
        IF success
        THEN ThreadStep(t, [thr[t] EXCEPT !.pc = "set_cached_printers", !.read_at = now,
                               !.result = PrintersOf(names, thr[t].default_printer),
                               !.os = Append(@, "EnumPrintersW")])
        ELSE ThreadStep(t, Returned([thr[t] EXCEPT !.os = Append(@, "EnumPrintersW")],
                                    PrinterLookupFailed))
    /\ UNCHANGED <<PRINTER_CACHE, MEDIA_CACHE, printerLock, mediaLock, lastOk>>

LockForSetCachedPrinters(t) ==
    /\ thr[t].pc = "set_cached_printers"
    /\ printerLock = 0
    /\ printerLock' = t
    /\ ThreadStep(t, [thr[t] EXCEPT !.pc = "set_cached_printers_locked"])
    /\ UNCHANGED <<PRINTER_CACHE, MEDIA_CACHE, mediaLock, lastOk>>

\* a plausible slip: the entry is stamped with the time of the read
set_cached_printers_read_time(t) ==
    /\ thr[t].pc = "set_cached_printers_locked"
    /\ printerLock = t
    /\ PRINTER_CACHE' = <<Cache(thr[t].result, thr[t].read_at)>>
    /\ printerLock' = DropGuard(t)
    /\ ThreadStep(t, Returned([thr[t] EXCEPT !.stored = TRUE], DirOk(thr[t].result)))
    /\ lastOk' = [lastOk EXCEPT !["printers"] = now,
                                ![EnumKey("printers")] = thr[t].enum_at]
    /\ UNCHANGED <<MEDIA_CACHE, mediaLock>>

set_cached_printers(t) ==
    /\ thr[t].pc = "set_cached_printers_locked"
    /\ printerLock = t
    /\ PRINTER_CACHE' = <<Cache(thr[t].result, now)>>
    /\ printerLock' = DropGuard(t)
    /\ ThreadStep(t, Returned([thr[t] EXCEPT !.stored = TRUE], DirOk(thr[t].result)))
    /\ lastOk' = [lastOk EXCEPT !["printers"] = now,
                                ![EnumKey("printers")] = thr[t].enum_at]
    /\ UNCHANGED <<MEDIA_CACHE, mediaLock>>

(***************************************************************************)
(* Windows: get_printer_media with get_cached_media and set_cached_media.  *)
(***************************************************************************)
DefaultMediaNames == <<"Letter", "Legal", "A4", "A3", "A5", "Tabloid", "Executive">>

default_media_options ==
    [i \in 1..Len(DefaultMediaNames) |->
        MediaOption(DefaultMediaNames[i], DefaultMediaNames[i], FALSE)]

\* lines 494-513: one option per non-empty form name, the defaults when none
MediaOf(names) ==
    LET kept == SelectSeq(names, LAMBDA n : n # "")
        options == [i \in 1..Len(kept) |-> MediaOption(kept[i], kept[i], FALSE)]
    IN  IF options = <<>> THEN default_media_options ELSE options

MediaTarget(t) ==
    /\ thr[t].pc = "media_target"
    /\ \E needed \in BOOLEAN, success \in BOOLEAN, name \in OSDefaultPrinters \ {None} :
        LET d == get_default_printer(needed, success, name)
        IN  IF thr[t].arg # None
            THEN ThreadStep(t, [thr[t] EXCEPT !.pc = "get_cached_media", !.name = thr[t].arg])
            ELSE IF d = None
            THEN ThreadStep(t, Returned([thr[t] EXCEPT !.os = Append(@, "GetDefaultPrinterW")],
                                        DirOk(<<>>)))
            ELSE ThreadStep(t, [thr[t] EXCEPT !.pc = "get_cached_media", !.name = d,
                                   !.os = Append(@, "GetDefaultPrinterW")])
    /\ UNCHANGED <<PRINTER_CACHE, MEDIA_CACHE, printerLock, mediaLock, lastOk>>

LockForGetCachedMedia(t) ==
    /\ thr[t].pc = "get_cached_media"
    /\ mediaLock = 0
    /\ mediaLock' = t
    /\ ThreadStep(t, [thr[t] EXCEPT !.pc = "get_cached_media_locked"])
    /\ UNCHANGED <<PRINTER_CACHE, MEDIA_CACHE, printerLock, lastOk>>

\* get_cached_media only reads the map: an expired entry stays in it
MediaAfterLookup_clear(cache, cached) ==
    IF cached = <<>> THEN [k \in DOMAIN cache |-> <<>>] ELSE cache
MediaAfterLookup(cache, cached) == cache

\* lines 450-452: cached options are returned at once
OnCachedMedia_fallthrough(f, cached) ==
    IF cached # <<>>
    THEN [f EXCEPT !.hit = TRUE, !.pc = "open_printer"]
    ELSE [f EXCEPT !.pc = "open_printer"]
OnCachedMedia(f, cached) ==
    IF cached # <<>>
    THEN Returned([f EXCEPT !.hit = TRUE], DirOk(cached[1]))
    ELSE [f EXCEPT !.pc = "open_printer"]

get_cached_media(t) ==
    /\ thr[t].pc = "get_cached_media_locked"
    /\ mediaLock = t
    /\ LET cached == Cached(MEDIA_CACHE[thr[t].name], now)
       IN  /\ ThreadStep(t, OnCachedMedia([thr[t] EXCEPT !.at = now], cached))
           /\ MEDIA_CACHE' = MediaAfterLookup(MEDIA_CACHE, cached)
    /\ mediaLock' = DropGuard(t)
    /\ UNCHANGED <<PRINTER_CACHE, printerLock, lastOk>>

OpenPrinter(t) ==
    /\ thr[t].pc = "open_printer"
    /\ \E opened \in BOOLEAN :
        IF opened
        THEN ThreadStep(t, [thr[t] EXCEPT !.pc = "enum_forms_size",
                               !.os = Append(@, "OpenPrinterW")])
        ELSE ThreadStep(t, Returned([thr[t] EXCEPT !.os = Append(@, "OpenPrinterW")],
                                    PrinterLookupFailed))
    /\ UNCHANGED <<PRINTER_CACHE, MEDIA_CACHE, printerLock, mediaLock, lastOk>>

EnumFormsSize(t) ==
    /\ thr[t].pc = "enum_forms_size"
    /\ \E needed \in BOOLEAN :
        IF needed
        THEN ThreadStep(t, [thr[t] EXCEPT !.pc = "enum_forms", !.enum_at = now,
                               !.os = Append(@, "EnumFormsW")])
        ELSE ThreadStep(t, [thr[t] EXCEPT !.pc = "set_cached_media",
                               !.enum_at = now, !.read_at = now,
                               !.result = default_media_options,
                               !.os = @ \o <<"EnumFormsW", "ClosePrinter">>])
    /\ UNCHANGED <<PRINTER_CACHE, MEDIA_CACHE, printerLock, mediaLock, lastOk>>

EnumForms(t) ==
    /\ thr[t].pc = "enum_forms"
    /\ \E success \in BOOLEAN, names \in OSFormNames :
        IF success
        THEN ThreadStep(t, [thr[t] EXCEPT !.pc = "set_cached_media", !.read_at = now,
                               !.result = MediaOf(names),
                               !.os = @ \o <<"EnumFormsW", "ClosePrinter">>])
        ELSE ThreadStep(t, Returned([thr[t] EXCEPT !.os = @ \o <<"EnumFormsW", "ClosePrinter">>],
                                    PrinterLookupFailed))
    /\ UNCHANGED <<PRINTER_CACHE, MEDIA_CACHE, printerLock, mediaLock, lastOk>>

LockForSetCachedMedia(t) ==
    /\ thr[t].pc = "set_cached_media"
    /\ mediaLock = 0
    /\ mediaLock' = t
    /\ ThreadStep(t, [thr[t] EXCEPT !.pc = "set_cached_media_locked"])
    /\ UNCHANGED <<PRINTER_CACHE, MEDIA_CACHE, printerLock, lastOk>>

set_cached_media(t) ==
    /\ thr[t].pc = "set_cached_media_locked"
    /\ mediaLock = t
    /\ MEDIA_CACHE' = [MEDIA_CACHE EXCEPT ![thr[t].name] = <<Cache(thr[t].result, now)>>]
    /\ mediaLock' = DropGuard(t)
    /\ ThreadStep(t, Returned([thr[t] EXCEPT !.stored = TRUE], DirOk(thr[t].result)))
    /\ lastOk' = [lastOk EXCEPT ![thr[t].name] = now,
                                ![EnumKey(thr[t].name)] = thr[t].enum_at]
    /\ UNCHANGED <<PRINTER_CACHE, printerLock>>

(***************************************************************************)
(* Linux: get_printers and get_printer_media run the spooler's commands on *)
(* every call; linux.rs holds no cache.                                    *)
(***************************************************************************)
LpstatPrinters == {<<>>, <<"PrinterA">>}      \* names of the `printer ` lines
LpoptionsMedia == {<<>>, <<MediaOption("A4", "A4", TRUE)>>}   \* parse_media_options

LinuxPrintersOf(names, default_name) ==
    [i \in 1..Len(names) |-> PrinterInfo(names[i], default_name = names[i], "idle")]

linux_get_printers(t) ==
    /\ thr[t].pc = "lpstat_p"
    /\ \E success \in BOOLEAN, names \in LpstatPrinters, default_name \in OSDefaultPrinters :
        IF success
        THEN /\ ThreadStep(t, Returned([thr[t] EXCEPT !.os = <<"lpstat -p", "lpstat -d">>],
                                       DirOk(LinuxPrintersOf(names, default_name))))
             /\ lastOk' = [lastOk EXCEPT !["printers"] = now]
        ELSE /\ ThreadStep(t, Returned([thr[t] EXCEPT !.os = <<"lpstat -p">>],
                                       PrinterLookupFailed))
             /\ UNCHANGED lastOk
    /\ UNCHANGED <<PRINTER_CACHE, MEDIA_CACHE, printerLock, mediaLock>>

linux_get_printer_media(t) ==
    /\ thr[t].pc = "lpoptions"
    /\ \E success \in BOOLEAN, options \in LpoptionsMedia, default_name \in OSDefaultPrinters :
        LET name == IF thr[t].arg # None THEN thr[t].arg ELSE default_name
            os == (IF thr[t].arg = None THEN <<"lpstat -d">> ELSE <<>>) \o <<"lpoptions">>
            f == [thr[t] EXCEPT !.os = os, !.name = IF name = None THEN "" ELSE name]
        IN  IF success
            THEN /\ ThreadStep(t, Returned(f, DirOk(options)))
                 /\ lastOk' = IF name = None THEN lastOk ELSE [lastOk EXCEPT ![name] = now]
            ELSE /\ ThreadStep(t, Returned(f, PrinterLookupFailed))
                 /\ UNCHANGED lastOk
    /\ UNCHANGED <<PRINTER_CACHE, MEDIA_CACHE, printerLock, mediaLock>>

(***************************************************************************)
(* Linux: print_pdf hands the file to `lp` and reads the job id from what  *)
(* lp prints.  Text is a sequence of characters.                           *)
(***************************************************************************)
Marker == <<"r", "e", "q", "u", "e", "s", "t", " ", "i", "d", " ", "i", "s", " ">>
Whitespace == {" ", "\n"}
Digits == <<"0", "1", "2", "3", "4", "5", "6", "7", "8", "9">>
IsDigit(c) == \E d \in 1..10 : Digits[d] = c
DigitOf(c) == (CHOOSE d \in 1..10 : Digits[d] = c) - 1

\* a u32 is written as its decimal numeral without leading zeros
U32_MAX == <<"4", "2", "9", "4", "9", "6", "7", "2", "9", "5">>

RECURSIVE Numeral(_)
Numeral(digits) ==
    IF Len(digits) > 1 /\ digits[1] = "0" THEN Numeral(Tail(digits)) ELSE digits

\* a <= b for numerals
NumeralLeq(a, b) ==
    \/ Len(a) < Len(b)
    \/ /\ Len(a) = Len(b)
       /\ \A i \in 1..Len(a) :
            (\A j \in 1..(i - 1) : a[j] = b[j]) => DigitOf(a[i]) <= DigitOf(b[i])

\* str::parse::<u32>().ok(): digits after an optional '+', no overflow
ParseU32(text) ==
    LET digits == IF text # <<>> /\ text[1] = "+" THEN Tail(text) ELSE text
    IN  IF digits = <<>> \/ \E i \in 1..Len(digits) : ~IsDigit(digits[i])
        THEN NoJob
        ELSE IF ~NumeralLeq(Numeral(digits), U32_MAX) THEN NoJob
        ELSE SomeJob(Numeral(digits))

\* str::find: where the first occurrence of `pattern` starts, 0 when none
Find(text, pattern) ==
    LET at == {i \in 1..(Len(text) - Len(pattern) + 1) :
                  SubSeq(text, i, i + Len(pattern) - 1) = pattern}
    IN  IF at = {} THEN 0 ELSE CHOOSE i \in at : \A j \in at : i <= j

\* split_whitespace().next(): <<token>>, or <<>> when there is none
FirstToken(text) ==
    LET starts == {i \in 1..Len(text) : text[i] \notin Whitespace}
    IN  IF starts = {} THEN <<>>
        ELSE LET a == CHOOSE i \in starts : \A j \in starts : i <= j
                 ends == {i \in a..Len(text) : i = Len(text) \/ text[i + 1] \in Whitespace}
                 b == CHOOSE i \in ends : \A j \in ends : i <= j
             IN  <<SubSeq(text, a, b)>>

\* a plausible slip: the part after the first hyphen
SegmentAfterFirstHyphen(token) ==
    LET hyphens == {i \in 1..Len(token) : token[i] = "-"}
    IN  IF hyphens = {} THEN token
        ELSE SubSeq(token, (CHOOSE i \in hyphens : \A j \in hyphens : i <= j) + 1, Len(token))

\* rsplit('-').next(): the part after the last hyphen, the token when none
LastSegment(token) ==
    LET hyphens == {i \in 1..Len(token) : token[i] = "-"}
    IN  IF hyphens = {} THEN token
        ELSE SubSeq(token, (CHOOSE i \in hyphens : \A j \in hyphens : i >= j) + 1, Len(token))

parse_lp_job_id(output) ==
    LET start == Find(output, Marker)
    IN  IF start = 0 THEN NoJob
        ELSE LET token == FirstToken(SubSeq(output, start + Len(Marker), Len(output)))
             IN  IF token = <<>> THEN NoJob ELSE ParseU32(LastSegment(token[1]))

\* str::trim
Trim(text) ==
    LET keep == {i \in 1..Len(text) : text[i] \notin Whitespace}
    IN  IF keep = {} THEN <<>>
        ELSE SubSeq(text, CHOOSE i \in keep : \A j \in keep : i <= j,
                          CHOOSE i \in keep : \A j \in keep : i >= j)

\* what lp may print after a job was accepted
MaxTail == 3
TailChars == {"P", "-", "1", " "}
BoundedTails == UNION {[1..n -> TailChars] : n \in 0..MaxTail}
NamedTails ==
    { <<"H", "P", "-", "1", "4", "2", " ", "(", "1", ")">>,
      <<"H", "-", "P", "-", "7", "\n">>,
      <<"P", "-", "+", "5">>,
      <<"P", "-", "4", "2", "9", "4", "9", "6", "7", "2", "9", "5">>,
      <<"P", "-", "4", "2", "9", "4", "9", "6", "7", "2", "9", "6">>,
      <<"P", "-", "0", "0", "7">>,
      <<"P", "-", "1", "x">> }
LpStdouts ==
    {head \o tail : head \in {<<>>, Marker, <<"x", "\n">> \o Marker},
                    tail \in BoundedTails \cup NamedTails}

LpPending == [ok |-> FALSE, error |-> "pending", message |-> <<>>,
              value |-> [job_id |-> NoJob, printer |-> "", message |-> <<>>]]

\* Option<u32>: <<>> or <<n>>
NoCopies == <<>>

\* u32::to_string: the decimal numeral
RECURSIVE u32_to_string(_)
u32_to_string(n) ==
    IF n < 10 THEN <<Digits[n + 1]>> ELSE u32_to_string(n \div 10) \o <<Digits[(n % 10) + 1]>>

PrintOptions(path, printer_name, job_name, copies, duplex, paper_size, remove_after_print) ==
    [copies |-> copies, duplex |-> duplex, job_name |-> job_name,
     paper_size |-> paper_size, path |-> path, printer_name |-> printer_name,
     remove_after_print |-> remove_after_print]

\* linux.rs 11-38: the arguments of the `lp` command, in order; an argument
\* is the concatenation of its pieces
CopiesArgs_always(copies) ==
    IF copies # NoCopies THEN <<<<"-n">>, u32_to_string(copies[1])>> ELSE <<>>
CopiesArgs(copies) ==
    IF copies # NoCopies /\ copies[1] > 1 THEN <<<<"-n">>, u32_to_string(copies[1])>> ELSE <<>>

Sides(duplex) ==
    IF duplex = "long" THEN <<"two-sided-long-edge">>
    ELSE IF duplex = "short" THEN <<"two-sided-short-edge">>
    ELSE <<>>

LpArgs(options) ==
    (IF options.printer_name # None THEN <<<<"-d">>, <<options.printer_name>>>> ELSE <<>>)
    \o (IF options.job_name # None THEN <<<<"-t">>, <<options.job_name>>>> ELSE <<>>)
    \o CopiesArgs(options.copies)
    \o (IF options.duplex # None /\ Sides(options.duplex) # <<>>
        THEN <<<<"-o">>, <<"sides=">> \o Sides(options.duplex)>> ELSE <<>>)
    \o (IF options.paper_size # None /\ options.paper_size # ""
        THEN <<<<"-o">>, <<"media=", options.paper_size>>>> ELSE <<>>)
    \o <<<<options.path>>>>

\* the requests the Linux backend is driven with
LpRequests ==
    { PrintOptions("doc.pdf", printer_name, job_name, copies, duplex, paper_size, remove) :
        printer_name \in {"PrinterA", None}, remove \in BOOLEAN,
        <<job_name, copies, duplex, paper_size>> \in
            { <<None, NoCopies, None, None>>,
              <<"Report", <<2>>, "long", "A4">>,
              <<None, <<1>>, "both", "">> } }

IdleLp ==
    [args |-> <<>>, child |-> "none", os |-> <<>>, path |-> "",
     printer_name |-> None, remove_after_print |-> FALSE, result |-> LpPending,
     state |-> "new", status |-> "none", stdout |-> <<>>]

\* linux.rs 5-40: print_pdf from its entry to the start of the `lp` child
\* (Command::output spawns the child and then waits for it)
linux_print_pdf ==
    /\ target = "linux"
    /\ lp.state = "new"
    /\ \E options \in LpRequests, spawned \in BOOLEAN :
        LET rec(state, args, child, os, status, res) ==
                [args |-> args, child |-> child, os |-> os, path |-> file,
                 printer_name |-> options.printer_name,
                 remove_after_print |-> options.remove_after_print,
                 result |-> res, state |-> state, status |-> status, stdout |-> <<>>]
        IN  IF ~PathExists(file)
            THEN lp' = rec("returned", <<>>, "none", <<>>, "none",
                           PrintCommandFailed(<<"PDF path does not exist">>))
            ELSE IF ~spawned
            THEN lp' = rec("returned", LpArgs(options), "none", <<"lp">>, "not_run",
                           PrintCommandFailed(<<"spawn">>))
            ELSE lp' = rec("waiting", LpArgs(options), "running", <<"lp">>, "none", LpPending)
    /\ UNCHANGED <<file, req, worker>>
    /\ UNCHANGED <<cacheVars, stageVars, calc, appVars>>

\* the `lp` child exits: its exit status and what it printed
LpExit ==
    /\ lp.child = "running"
    /\ \E success \in BOOLEAN, stdout \in LpStdouts :
        lp' = [lp EXCEPT !.child = "exited",
                         !.status = IF success /\ file = "file" THEN "success" ELSE "failure",
                         !.stdout = IF success /\ file = "file" THEN stdout ELSE <<>>]
    /\ UNCHANGED <<file, req, worker>>
    /\ UNCHANGED <<cacheVars, stageVars, calc, appVars>>

\* Command::output returns only once the child has exited
OutputReady_spawned(l) == l.child \in {"running", "exited"}
OutputReady(l) == l.child = "exited"

\* linux.rs 40-62: print_pdf from the return of Command::output to its own
linux_print_pdf_return ==
    /\ lp.state = "waiting"
    /\ OutputReady(lp)
    /\ \E default \in OSDefaultPrinters, removed \in BOOLEAN :
        LET printer == IF lp.printer_name # None THEN lp.printer_name
                       ELSE IF default # None THEN default ELSE "unknown"
            lookup == IF lp.printer_name = None THEN <<"lpstat -d">> ELSE <<>>
        IN  IF lp.status # "success"
            THEN /\ lp' = [lp EXCEPT !.state = "returned",
                                     !.result = PrintCommandFailed(<<"stderr">>)]
                 /\ UNCHANGED file
            ELSE /\ lp' = [lp EXCEPT
                             !.state = "returned",
                             !.os = lp.os \o lookup
                                    \o (IF lp.remove_after_print THEN <<"remove_file">> ELSE <<>>),
                             !.result = Ok(PrintResult(parse_lp_job_id(lp.stdout), printer,
                                                       Trim(lp.stdout)))]
                 /\ file' = RemoveAfterPrint(lp.remove_after_print, removed, file)
    /\ UNCHANGED <<req, worker>>
    /\ UNCHANGED <<cacheVars, stageVars, calc, appVars>>

(***************************************************************************)
(* print_pdf_bytes: the payload is decoded, written to a temporary file    *)
(* named after the wall clock, and handed to the backend's print_pdf as a  *)
(* path.  The backend's job reads the file later and may remove it.        *)
(***************************************************************************)
Alphabet ==
    <<"A", "B", "C", "D", "E", "F", "G", "H", "I", "J", "K", "L", "M", "N", "O", "P",
      "Q", "R", "S", "T", "U", "V", "W", "X", "Y", "Z", "a", "b", "c", "d", "e", "f",
      "g", "h", "i", "j", "k", "l", "m", "n", "o", "p", "q", "r", "s", "t", "u", "v",
      "w", "x", "y", "z", "0", "1", "2", "3", "4", "5", "6", "7", "8", "9", "+", "/">>

IsSymbol(c) == \E i \in 1..64 : Alphabet[i] = c
SextetOf(c) == (CHOOSE i \in 1..64 : Alphabet[i] = c) - 1
SymbolOf(sextet) == Alphabet[sextet + 1]

\* the STANDARD engine's encoding: three bytes to four symbols, '=' padding
RECURSIVE Encode(_)
Encode(bytes) ==
    IF bytes = <<>> THEN <<>>
    ELSE IF Len(bytes) = 1
    THEN <<SymbolOf(bytes[1] \div 4), SymbolOf((bytes[1] % 4) * 16), "=", "=">>
    ELSE IF Len(bytes) = 2
    THEN <<SymbolOf(bytes[1] \div 4),
           SymbolOf((bytes[1] % 4) * 16 + bytes[2] \div 16),
           SymbolOf((bytes[2] % 16) * 4), "=">>
    ELSE <<SymbolOf(bytes[1] \div 4),
           SymbolOf((bytes[1] % 4) * 16 + bytes[2] \div 16),
           SymbolOf((bytes[2] % 16) * 4 + bytes[3] \div 64),
           SymbolOf(bytes[3] % 64)>> \o Encode(SubSeq(bytes, 4, Len(bytes)))

DecodeError == [ok |-> FALSE, bytes |-> <<>>]
Decoded(bytes) == [ok |-> TRUE, bytes |-> bytes]

\* the last group of four: two symbols and "==", three and "=", or four;
\* the bits that belong to no byte must be zero
DecodeLast(g) ==
    IF ~IsSymbol(g[1]) \/ ~IsSymbol(g[2]) THEN DecodeError
    ELSE LET a == SextetOf(g[1])
             b == SextetOf(g[2])
         IN  IF g[3] = "=" /\ g[4] = "="
             THEN IF b % 16 = 0 THEN Decoded(<<a * 4 + b \div 16>>) ELSE DecodeError
             ELSE IF ~IsSymbol(g[3]) THEN DecodeError
             ELSE LET c == SextetOf(g[3])
                  IN  IF g[4] = "="
                      THEN IF c % 4 = 0
                           THEN Decoded(<<a * 4 + b \div 16, (b % 16) * 16 + c \div 4>>)
                           ELSE DecodeError
                      ELSE IF ~IsSymbol(g[4]) THEN DecodeError
                      ELSE Decoded(<<a * 4 + b \div 16, (b % 16) * 16 + c \div 4,
                                     (c % 4) * 64 + SextetOf(g[4])>>)

\* STANDARD.decode: padded input only, so a multiple of four symbols
RECURSIVE DecodeBytes(_)
DecodeBytes(text) ==
    IF text = <<>> THEN Decoded(<<>>)
    ELSE IF Len(text) % 4 # 0 THEN DecodeError
    ELSE IF Len(text) = 4 THEN DecodeLast(text)
    ELSE LET head == DecodeLast(SubSeq(text, 1, 4))
             rest == DecodeBytes(SubSeq(text, 5, Len(text)))
         IN  IF head.ok /\ Len(head.bytes) = 3 /\ rest.ok
             THEN Decoded(head.bytes \o rest.bytes)
             ELSE DecodeError

MaxMillis == 2
MaxLen == 2
Bytes == {0, 255}
BoundedData == UNION {[1..n -> Bytes] : n \in 0..MaxLen}
NamedData == {<<77>>, <<72, 105, 33>>, <<251, 239, 190, 1>>}
StageData == BoundedData \cup NamedData

\* payloads that are no padded base64: a foreign character, a missing pad,
\* a length that is no multiple of four, bits left over in the last symbol
Malformed == {<<"!", "A", "A", "A">>, <<"T", "Q">>, <<"T", "Q", "=">>, <<"T", "R", "=", "=">>}
B64Inputs == {Encode(d) : d \in StageData} \cup Malformed

BytesOptions(printer_name, job_name, copies, duplex, paper_size, remove_after_print) ==
    [printer_name |-> printer_name, job_name |-> job_name, copies |-> copies,
     duplex |-> duplex, paper_size |-> paper_size,
     remove_after_print |-> remove_after_print]
StageOptions ==
    { BytesOptions(None, None, NoCopies, None, None, FALSE),
      BytesOptions("PrinterA", "Report", <<2>>, "long", "A4", TRUE) }

NoFile == <<>>
FileOf(bytes) == <<bytes>>
NoPath == -1

IdleCall ==
    [pc |-> "idle", data_base64 |-> <<>>, options |-> BytesOptions(None, None, NoCopies, None, None, FALSE),
     data |-> <<>>, temp_path |-> NoPath, print_options |-> <<>>, printed |-> <<>>,
     result |-> Pending]

CallStep(t, f) ==
    /\ calls' = [calls EXCEPT ![t] = f]
    /\ UNCHANGED ms

StageFrame == UNCHANGED <<printVars, cacheVars, calc, appVars>>

StageBegin(t) ==
    /\ calls[t].pc = "idle"
    /\ \E data_base64 \in B64Inputs, options \in StageOptions :
        CallStep(t, [calls[t] EXCEPT !.pc = "decode", !.data_base64 = data_base64,
                                     !.options = options])
    /\ UNCHANGED tmp
    /\ StageFrame

\* a plausible slip: a payload that does not decode is staged as empty
AfterDecode_lenient(f, decoded) ==
    [f EXCEPT !.pc = "temp_path", !.data = decoded.bytes]

\* lib.rs 96-98: `?` on the decoder's error
AfterDecode(f, decoded) ==
    IF decoded.ok
    THEN [f EXCEPT !.pc = "temp_path", !.data = decoded.bytes]
    ELSE [f EXCEPT !.pc = "done", !.result = Err("ReadFailed", <<"decode">>)]

DecodePayload(t) ==
    /\ calls[t].pc = "decode"
    /\ CallStep(t, AfterDecode(calls[t], DecodeBytes(calls[t].data_base64)))
    /\ UNCHANGED tmp
    /\ StageFrame

\* lib.rs 189-196: the path is the temporary directory's
\* native-pdf-print-<milliseconds since the epoch>.pdf
create_temp_pdf_path(t) ==
    /\ calls[t].pc = "temp_path"
    /\ CallStep(t, [calls[t] EXCEPT !.pc = "write", !.temp_path = ms])
    /\ UNCHANGED tmp
    /\ StageFrame

\* lib.rs 106: fs::write creates or truncates the file, then writes; it may
\* fail before the file exists or after it was emptied
WriteTemp(t) ==
    /\ calls[t].pc = "write"
    /\ \E outcome \in {"written", "not_created", "truncated"} :
        LET path == calls[t].temp_path
            failed == [calls[t] EXCEPT !.pc = "done",
                                       !.result = Err("WriteFailed", <<"write">>)]
        IN  CASE outcome = "written" ->
                    /\ tmp' = [tmp EXCEPT ![path] = FileOf(calls[t].data)]
                    /\ CallStep(t, [calls[t] EXCEPT !.pc = "print"])
              [] outcome = "not_created" ->
                    /\ UNCHANGED tmp
                    /\ CallStep(t, failed)
              [] outcome = "truncated" ->
                    /\ tmp' = [tmp EXCEPT ![path] = FileOf(<<>>)]
                    /\ CallStep(t, failed)
    /\ StageFrame

\* a plausible slip: the staged file is always removed after printing
StagedOptions_remove(options, temp_path) ==
    [path |-> temp_path, printer_name |-> options.printer_name,
     job_name |-> options.job_name, copies |-> options.copies,
     duplex |-> options.duplex, paper_size |-> options.paper_size,
     remove_after_print |-> TRUE]

\* lib.rs 117-125: the PrintOptions built for the backend
StagedOptions(options, temp_path) ==
    [path |-> temp_path, printer_name |-> options.printer_name,
     job_name |-> options.job_name, copies |-> options.copies,
     duplex |-> options.duplex, paper_size |-> options.paper_size,
     remove_after_print |-> options.remove_after_print]

\* lib.rs 127: print_pdf of the backend, up to the point where the job is
\* accepted; the backend checks that the path exists
DispatchPrint(t) ==
    /\ calls[t].pc = "print"
    /\ LET print_options == StagedOptions(calls[t].options, calls[t].temp_path)
           f == [calls[t] EXCEPT !.print_options = <<print_options>>]
       IN  IF target \notin Targets
           THEN CallStep(t, [f EXCEPT !.pc = "done",
                                      !.result = Err("UnsupportedPlatform", <<>>)])
           ELSE IF tmp[print_options.path] = NoFile
           THEN CallStep(t, [f EXCEPT !.pc = "done",
                                      !.result = PrintCommandFailed(<<"PDF path does not exist">>)])
           ELSE CallStep(t, [f EXCEPT !.pc = "job",
                   !.result = Ok(PrintResult(NoJob, "printer", "Print job submitted (async)"))])
    /\ UNCHANGED tmp
    /\ StageFrame

\* the job opens the file it was given (windows.rs 130-131, `lp` on Linux)
JobLoad(t) ==
    /\ calls[t].pc = "job"
    /\ LET path == calls[t].print_options[1].path
       IN  IF tmp[path] = NoFile
           THEN CallStep(t, [calls[t] EXCEPT !.pc = "job_done"])
           ELSE CallStep(t, [calls[t] EXCEPT !.pc = "job_loaded", !.printed = tmp[path]])
    /\ UNCHANGED tmp
    /\ StageFrame

\* the job ends; a finished job removes the file when asked to
\* (windows.rs 339-341, linux.rs 54-56)
JobFinish(t) ==
    /\ calls[t].pc = "job_loaded"
    /\ \E finished \in BOOLEAN, removed \in BOOLEAN :
        LET o == calls[t].print_options[1]
        IN  tmp' = IF finished /\ o.remove_after_print /\ removed
                   THEN [tmp EXCEPT ![o.path] = NoFile]
                   ELSE tmp
    /\ CallStep(t, [calls[t] EXCEPT !.pc = "job_done"])
    /\ StageFrame

TickMs ==
    /\ ms < MaxMillis
    /\ ms' = ms + 1
    /\ UNCHANGED <<tmp, calls>>
    /\ StageFrame

(***************************************************************************)
(* The backends' pure computations, evaluated on inputs of their own:      *)
(* the raster size of a page, the destination rectangle of a bitmap, the   *)
(* media options in what lpoptions prints.  f32 arithmetic is modelled by  *)
(* exact fractions.                                                        *)
(***************************************************************************)
NoCalc == [in |-> <<>>, op |-> "none", out |-> <<>>]

\* one evaluation: the operation, its input, its output
CalcStep(op, in, out) ==
    /\ calc = NoCalc
    /\ calc' = [in |-> in, op |-> op, out |-> out]
    /\ UNCHANGED <<printVars, cacheVars, stageVars, appVars>>

\* windows.rs 173-174 and 210-219
CalcPoints == {1, 72, 612, 792, 1440, 2880, 14400}
CalcDpis == {0, 72, 96, 150, 600}
RasterSize ==
    \E w \in CalcPoints, h \in CalcPoints, dpi_x \in CalcDpis, dpi_y \in CalcDpis :
        CalcStep("raster_size", <<w, h, dpi_x, dpi_y>>,
                 TargetSize(<<w, h>>, Min(dpi_x, MAX_RENDER_DPI), Min(dpi_y, MAX_RENDER_DPI)))

\* i32 division rounds toward zero
TruncDiv(a, b) == IF a >= 0 THEN a \div b ELSE -((-a) \div b)

\* a plausible slip: no floor under the scale
FitScale_nofloor(printable_w, printable_h, width, height) ==
    IF printable_w * height <= printable_h * width
    THEN <<printable_w, width>> ELSE <<printable_h, height>>

\* windows.rs 236-238: the scale as a fraction <<numerator, denominator>>,
\* the smaller of the two ratios and at least 1/100
FitScale(printable_w, printable_h, width, height) ==
    LET ratio == IF printable_w * height <= printable_h * width
                 THEN <<printable_w, width>> ELSE <<printable_h, height>>
    IN  IF ratio[1] * 100 < ratio[2] THEN <<1, 100>> ELSE ratio

\* windows.rs 236-242: <<dest_x, dest_y, dest_w, dest_h>>
Fit(printable_w, printable_h, offset_x, offset_y, width, height) ==
    LET scale == FitScale(printable_w, printable_h, width, height)
        dest_w == RoundDiv(width * scale[1], scale[2])
        dest_h == RoundDiv(height * scale[1], scale[2])
    IN  <<offset_x + TruncDiv(printable_w - dest_w, 2),
          offset_y + TruncDiv(printable_h - dest_h, 2), dest_w, dest_h>>

Printables == {0, 1, 10, 2400, 3300, 4961}
Offsets == {0, 75}
BitmapDims == {1, 7, 816, 1275, 2000}
FitRect ==
    \E printable_w \in Printables, printable_h \in Printables,
       offset_x \in Offsets, offset_y \in Offsets,
       width \in BitmapDims, height \in BitmapDims :
        CalcStep("fit", <<printable_w, printable_h, offset_x, offset_y, width, height>>,
                 Fit(printable_w, printable_h, offset_x, offset_y, width, height))

\* linux.rs 152-184.  A line of the text is what stands before its first
\* ':' (the whole line when it has none) and the whitespace-separated tokens
\* after it.
OptionLine(head, colon, tokens) == [colon |-> colon, head |-> head, tokens |-> tokens]

StartsWith(text, prefix) ==
    Len(text) >= Len(prefix) /\ SubSeq(text, 1, Len(prefix)) = prefix

MediaPrefixes ==
    { <<"m", "e", "d", "i", "a", "/">>,
      <<"P", "a", "g", "e", "S", "i", "z", "e", "/">>,
      <<"P", "a", "g", "e", "S", "i", "z", "e">>,
      <<"M", "e", "d", "i", "a">> }

is_media_line(line) == \E prefix \in MediaPrefixes : StartsWith(line.head, prefix)

\* trim_start_matches('*')
RECURSIVE TrimStars(_)
TrimStars(token) ==
    IF token # <<>> /\ token[1] = "*" THEN TrimStars(Tail(token)) ELSE token

\* split_once('/'): id and label, both the token when it has no '/'
IdAndLabel(raw) ==
    LET slashes == {i \in 1..Len(raw) : raw[i] = "/"}
    IN  IF slashes = {} THEN <<raw, raw>>
        ELSE LET at == CHOOSE i \in slashes : \A j \in slashes : i <= j
             IN  <<SubSeq(raw, 1, at - 1), SubSeq(raw, at + 1, Len(raw))>>

OptionOf(token) ==
    LET pair == IdAndLabel(TrimStars(token))
    IN  MediaOption(pair[1], pair[2], token[1] = "*")

OptionsOf(tokens) == [i \in 1..Len(tokens) |-> OptionOf(tokens[i])]

\* the options of the first media line that has a ':' and a token after it
RECURSIVE parse_media_options(_)
parse_media_options(output) ==
    IF output = <<>> THEN <<>>
    ELSE LET line == Head(output)
         IN  IF is_media_line(line) /\ line.colon /\ line.tokens # <<>>
             THEN OptionsOf(line.tokens)
             ELSE parse_media_options(Tail(output))

PageSizeHead == <<"P", "a", "g", "e", "S", "i", "z", "e", "/", "M">>
DuplexHead == <<"D", "u", "p", "l", "e", "x", "/", "2">>
MediaHead == <<"m", "e", "d", "i", "a", "/", "M">>
MediaTypeHead == <<"M", "e", "d", "i", "a", "T", "y", "p", "e", "/", "T">>
A4 == <<"A", "4">>
StarA4 == <<"*", "A", "4">>
Letter == <<"L", "/", "U", "S">>
StarLetter == <<"*", "L", "/", "U", "S">>
OptionLines ==
    { OptionLine(PageSizeHead, TRUE, <<StarA4, Letter>>),
      OptionLine(PageSizeHead, TRUE, <<A4, Letter>>),
      OptionLine(PageSizeHead, TRUE, <<StarA4, StarLetter>>),
      OptionLine(PageSizeHead, FALSE, <<>>),
      OptionLine(MediaHead, TRUE, <<>>),
      OptionLine(MediaHead, TRUE, <<Letter, <<"*", "*", "A", "4">> >>),
      OptionLine(DuplexHead, TRUE, <<<<"*", "N">>, <<"L">> >>),
      OptionLine(MediaTypeHead, TRUE, <<<<"*", "P">>, <<"G", "/", "g">> >>) }

MaxLines == 2
OptionTexts == UNION {[1..n -> OptionLines] : n \in 0..MaxLines}

ParseMedia ==
    \E output \in OptionTexts :
        CalcStep("parse_media_options", output, parse_media_options(output))

\* linux.rs 11-38 on its own: the command built for one request
CommandOptions ==
    { PrintOptions(path, printer_name, job_name, copies, duplex, paper_size, FALSE) :
        path \in {"doc.pdf", "a b.pdf"},
        printer_name \in {None, "PrinterA"}, job_name \in {None, "Report"},
        copies \in {NoCopies, <<0>>, <<1>>, <<2>>, <<12>>},
        duplex \in {None, "long", "short", "both", ""},
        paper_size \in {None, "", "A4"} }
BuildCommand ==
    \E options \in CommandOptions : CalcStep("lp_args", options, LpArgs(options))

(***************************************************************************)
(* Linux: get_printers and get_default_printer as functions of what lpstat *)
(* prints.                                                                 *)
(***************************************************************************)
PrinterPrefix == <<"p", "r", "i", "n", "t", "e", "r", " ">>
DefaultPrefix ==
    <<"s", "y", "s", "t", "e", "m", " ", "d", "e", "f", "a", "u", "l", "t", " ", "d", "e", "s", "t", "i", "n", "a", "t", "i", "o", "n", ":", " ">>
DisabledWord == <<"d", "i", "s", "a", "b", "l", "e", "d">>
PrintingWord == <<"p", "r", "i", "n", "t", "i", "n", "g">>

\* str::lines: the pieces between newlines; a final newline ends the last line
RECURSIVE Lines(_)
Lines(text) ==
    IF text = <<>> THEN <<>>
    ELSE LET at == Find(text, <<"\n">>)
         IN  IF at = 0 THEN <<text>>
             ELSE <<SubSeq(text, 1, at - 1)>> \o Lines(SubSeq(text, at + 1, Len(text)))

Contains(text, pattern) == Find(text, pattern) # 0
StripPrefix(text, prefix) == SubSeq(text, Len(prefix) + 1, Len(text))

\* what `lpstat -d` did: it could not be run, it failed, or it printed stdout
LpstatD(ran, success, stdout) == [ran |-> ran, stdout |-> stdout, success |-> success]

\* linux.rs 104-122, then `.ok().flatten()` of line 76: None or the name
RECURSIVE FirstDefault(_)
FirstDefault(lines) ==
    IF lines = <<>> THEN None
    ELSE IF StartsWith(Head(lines), DefaultPrefix)
    THEN Trim(StripPrefix(Head(lines), DefaultPrefix))
    ELSE FirstDefault(Tail(lines))

default_name(lpstat_d) ==
    IF ~lpstat_d.ran \/ ~lpstat_d.success THEN None
    ELSE FirstDefault(Lines(lpstat_d.stdout))

\* linux.rs 85-91
StatusOf_printing_first(line) ==
    IF Contains(line, PrintingWord) THEN "printing"
    ELSE IF Contains(line, DisabledWord) THEN "disabled"
    ELSE "idle"
StatusOf(line) ==
    IF Contains(line, DisabledWord) THEN "disabled"
    ELSE IF Contains(line, PrintingWord) THEN "printing"
    ELSE "idle"

\* linux.rs 80-99
RECURSIVE ListedPrinters(_, _)
ListedPrinters(lines, default) ==
    IF lines = <<>> THEN <<>>
    ELSE LET line == Head(lines)
             name == IF StartsWith(line, PrinterPrefix)
                     THEN FirstToken(StripPrefix(line, PrinterPrefix)) ELSE <<>>
         IN  (IF name = <<>> THEN <<>>
              ELSE <<PrinterInfo(name[1], default # None /\ default = name[1], StatusOf(line))>>)
             \o ListedPrinters(Tail(lines), default)

\* linux.rs 76-101 after a successful `lpstat -p`
linux_printers_of(stdout, lpstat_d) == ListedPrinters(Lines(stdout), default_name(lpstat_d))

StatusLines ==
    { <<"p", "r", "i", "n", "t", "e", "r", " ", "H", "P", " ", "i", "s", " ", "i", "d", "l", "e", ".">>,
      <<"p", "r", "i", "n", "t", "e", "r", " ", "H", "P", " ", "d", "i", "s", "a", "b", "l", "e", "d", " ", "s", "i", "n", "c", "e", " ", "M", "o", "n">>,
      <<"p", "r", "i", "n", "t", "e", "r", " ", "B", " ", "n", "o", "w", " ", "p", "r", "i", "n", "t", "i", "n", "g", " ", "B", "-", "1", ".">>,
      <<"p", "r", "i", "n", "t", "e", "r", " ", "B", " ", "d", "i", "s", "a", "b", "l", "e", "d", ",", " ", "w", "a", "s", " ", "p", "r", "i", "n", "t", "i", "n", "g">>,
      <<"p", "r", "i", "n", "t", "e", "r", " ">>,
      <<"p", "r", "i", "n", "t", "e", "r", " ", "p", "r", "i", "n", "t", "i", "n", "g", "-", "r", "o", "o", "m", " ", "i", "s", " ", "i", "d", "l", "e", ".">>,
      <<"p", "r", "i", "n", "t", "e", "r", "s", " ", "H", "P">>,
      <<" ", " ", "p", "r", "i", "n", "t", "e", "r", " ", "H", "P">>,
      <<"r", "e", "a", "s", "o", "n", " ", "u", "n", "k", "n", "o", "w", "n">> }
MaxListed == 2
RECURSIVE Joined(_)
Joined(lines) ==
    IF lines = <<>> THEN <<>> ELSE Head(lines) \o <<"\n">> \o Joined(Tail(lines))
StatusTexts == {Joined(ls) : ls \in UNION {[1..n -> StatusLines] : n \in 0..MaxListed}}
DefaultTexts ==
    { <<>>,
      <<"n", "o", " ", "s", "y", "s", "t", "e", "m", " ", "d", "e", "f", "a", "u", "l", "t", " ", "d", "e", "s", "t", "i", "n", "a", "t", "i", "o", "n", "\n">>,
      <<"s", "y", "s", "t", "e", "m", " ", "d", "e", "f", "a", "u", "l", "t", " ", "d", "e", "s", "t", "i", "n", "a", "t", "i", "o", "n", ":", " ", "H", "P", "\n">>,
      <<"x", "\n", "s", "y", "s", "t", "e", "m", " ", "d", "e", "f", "a", "u", "l", "t", " ", "d", "e", "s", "t", "i", "n", "a", "t", "i", "o", "n", ":", " ", " ", "B", " ", "\n">>,
      <<"s", "y", "s", "t", "e", "m", " ", "d", "e", "f", "a", "u", "l", "t", " ", "d", "e", "s", "t", "i", "n", "a", "t", "i", "o", "n", ":", " ", "p", "r", "i", "n", "t", "i", "n", "g", "-", "r", "o", "o", "m">> }
LpstatDs ==
    {LpstatD(FALSE, FALSE, <<>>), LpstatD(TRUE, FALSE, <<>>)}
        \cup {LpstatD(TRUE, TRUE, text) : text \in DefaultTexts}

ListPrinters ==
    \E stdout \in StatusTexts, lpstat_d \in LpstatDs :
        CalcStep("get_printers", <<stdout, lpstat_d>>, linux_printers_of(stdout, lpstat_d))

(***************************************************************************)
(* wasm: FileBuffer, the content of one file with the index of its lines.  *)
(* Content is a sequence of bytes, written as characters; "xFF" stands for *)
(* a byte that is not valid UTF-8.                                         *)
(***************************************************************************)
RsOk(value) == [ok |-> TRUE, value |-> value]
RsErr(message) == [ok |-> FALSE, value |-> message]

\* a plausible slip: the offset pushed is that of the newline itself
index_lines_at_newline(content) ==
    LET newlines == {i \in 1..Len(content) : content[i] = "\n"}
    IN  <<0>> \o [k \in 1..Cardinality(newlines) |->
                    (CHOOSE i \in newlines : Cardinality({j \in newlines : j < i}) = k - 1) - 1]

\* file_buffer.rs 26-37: offset 0, then the offset after every newline
index_lines(content) ==
    LET newlines == {i \in 1..Len(content) : content[i] = "\n"}
    IN  <<0>> \o [k \in 1..Cardinality(newlines) |->
                    CHOOSE i \in newlines : Cardinality({j \in newlines : j < i}) = k - 1]

\* file_buffer.rs 14-21
FileBuffer(content) == [content |-> content, line_offsets |-> index_lines(content)]

\* file_buffer.rs 109-115
get_stats(buffer) ==
    [index_size |-> Len(buffer.line_offsets) * 4,
     line_count |-> Max(Len(buffer.line_offsets) - 1, 0),
     size |-> Len(buffer.content)]

\* file_buffer.rs 41-58: the bytes of a line as offsets <<start, end>>
get_line_byte_range(buffer, line_num) ==
    IF line_num = 0 \/ line_num >= Len(buffer.line_offsets)
    THEN RsErr("out of range")
    ELSE RsOk(<<buffer.line_offsets[line_num],
                IF line_num < Len(buffer.line_offsets) - 1
                THEN buffer.line_offsets[line_num + 1]
                ELSE Len(buffer.content)>>)

\* String::from_utf8
IsUtf8(bytes) == \A i \in 1..Len(bytes) : bytes[i] # "xFF"
from_utf8(bytes) == IF IsUtf8(bytes) THEN RsOk(bytes) ELSE RsErr("UTF-8 error")

\* a plausible slip: the order of the two line numbers is not checked
get_line_range_unordered(buffer, start_line, end_line) ==
    IF start_line = 0 THEN RsErr("Line numbers are 1-indexed")
    ELSE LET first == get_line_byte_range(buffer, start_line)
             last == get_line_byte_range(buffer, end_line)
         IN  IF ~first.ok THEN first
             ELSE IF ~last.ok THEN last
             ELSE from_utf8(SubSeq(buffer.content, first.value[1] + 1, last.value[2]))

\* file_buffer.rs 62-80
get_line_range(buffer, start_line, end_line) ==
    IF start_line = 0 THEN RsErr("Line numbers are 1-indexed")
    ELSE IF start_line > end_line THEN RsErr("Invalid range")
    ELSE LET first == get_line_byte_range(buffer, start_line)
             last == get_line_byte_range(buffer, end_line)
         IN  IF ~first.ok THEN first
             ELSE IF ~last.ok THEN last
             ELSE from_utf8(SubSeq(buffer.content, first.value[1] + 1, last.value[2]))

SearchMatch(line, column, text) == [column |-> column, line |-> line, text |-> text]

\* a pattern is a literal, or a text that is no regular expression
InvalidPattern == <<"(">>

\* Regex::find_iter of a literal: the columns of its matches from left to
\* right, none overlapping; the empty pattern matches at every position
RECURSIVE FindIter(_, _, _)
FindIter(line, pattern, from) ==
    IF pattern = <<>> THEN [k \in 1..(Len(line) + 1 - from) |-> from + k - 1]
    ELSE LET at == Find(SubSeq(line, from + 1, Len(line)), pattern)
         IN  IF at = 0 THEN <<>>
             ELSE <<from + at - 1>> \o FindIter(line, pattern, from + at - 1 + Len(pattern))

\* file_buffer.rs 90-97: every match of every line, in the order of the loops
RECURSIVE MatchesFrom(_, _, _)
MatchesFrom(lines, pattern, line_num) ==
    IF line_num > Len(lines) THEN <<>>
    ELSE LET columns == FindIter(lines[line_num], pattern, 0)
         IN  [k \in 1..Len(columns) |-> SearchMatch(line_num, columns[k], lines[line_num])]
             \o MatchesFrom(lines, pattern, line_num + 1)

\* file_buffer.rs 93-101: push, then return once max_results are held
Full(results, max_results) == Len(results) >= max_results

RECURSIVE Collect(_, _, _)
Collect(matches, results, max_results) ==
    IF matches = <<>> THEN results
    ELSE LET pushed == Append(results, Head(matches))
         IN  IF Full(pushed, max_results) THEN pushed
             ELSE Collect(Tail(matches), pushed, max_results)

\* file_buffer.rs 84-106
search(buffer, pattern, max_results) ==
    IF pattern = InvalidPattern THEN RsErr("Invalid regex")
    ELSE RsOk(Collect(MatchesFrom(Lines(buffer.content), pattern, 1), <<>>, max_results))

\* serde_json::from_str of the texts used here: a number, with whitespace
\* around it, is a document; the other texts are none
JsonDocuments == {<<"1">>}
from_str(text) ==
    IF Trim(text) \in JsonDocuments THEN RsOk(Trim(text)) ELSE RsErr("JSON error")

\* String::from_utf8_lossy: U+FFFD for every byte that is no UTF-8
from_utf8_lossy(bytes) == [i \in 1..Len(bytes) |-> IF bytes[i] = "xFF" THEN "uFFFD" ELSE bytes[i]]

\* file_buffer.rs 118-123
buffer_validate_json(buffer) ==
    LET parsed == from_str(from_utf8_lossy(buffer.content))
    IN  IF parsed.ok THEN RsOk(TRUE) ELSE parsed

\* file_buffer.rs 126-141: a scalar is written back as it is, whatever the indent
buffer_format_json(buffer, indent) == from_str(from_utf8_lossy(buffer.content))

MaxBytes == 3
BufferContents ==
    UNION {[1..n -> {"a", "\n"}] : n \in 0..MaxBytes}
        \cup { <<"a", "\n", "b", "\n", "c">>,
               <<"a", "b", "\n", "b", "\n", "a", "b", " ", "a", "b", "\n", "c">>,
               <<"a", "\n", "xFF", "\n">> }

LineCount ==
    \E content \in BufferContents :
        CalcStep("line_count", content, get_stats(FileBuffer(content)).line_count)

MaxLine == 4
LineRange ==
    \E content \in BufferContents, start_line \in 0..MaxLine, end_line \in 0..MaxLine :
        CalcStep("get_line_range", <<content, start_line, end_line>>,
                 get_line_range(FileBuffer(content), start_line, end_line))

MaxResults == 3
Patterns == {<<"a">>, <<"a", "b">>, <<>>, InvalidPattern}
SearchBuffer ==
    \E content \in BufferContents, pattern \in Patterns, max_results \in 0..MaxResults :
        CalcStep("search", <<content, pattern, max_results>>,
                 search(FileBuffer(content), pattern, max_results))

(***************************************************************************)
(* wasm: the module's statics and the calls that create, read and free     *)
(* file buffers.                                                           *)
(***************************************************************************)
MaxCreates == 3
FileIds == 0..MaxCreates
WasmContents == {<<"a", "\n", "\n", "b">>, <<"1", "\n">>, <<"xFF">>}
NoBuffer == <<>>

WasmFrame ==
    UNCHANGED <<file, req, worker, lp, cacheVars, stageVars, calc, preview, recent>>

\* lib.rs 14-19
ensure_initialized(w) == [w EXCEPT !.initialized = TRUE]

\* lib.rs 22-32
wasm_init ==
    /\ ~wasm.initialized
    /\ wasm' = ensure_initialized(wasm)
    /\ WasmFrame

\* lib.rs 41-46: the id handed out is the counter, which then moves on (a u32;
\* its wrap after 2^32 - 1 buffers lies beyond MaxCreates)
NextFileId_stuck(id) == id
NextFileId(id) == id + 1

\* lib.rs 37-59
create_file_buffer ==
    /\ Len(wasm.returned) < MaxCreates
    /\ \E content \in WasmContents :
        LET w == ensure_initialized(wasm)
            file_id == w.next
        IN  wasm' = [w EXCEPT !.next = NextFileId(file_id),
                              !.buffers[file_id] = <<FileBuffer(content)>>,
                              !.returned = Append(w.returned, file_id),
                              !.made = Append(w.made, content),
                              !.last = [id |-> file_id, op |-> "create_file_buffer",
                                        result |-> RsOk(file_id)]]
    /\ WasmFrame

\* a plausible slip: the call answers Ok and leaves the buffer in the map
free_file_buffer_kept ==
    /\ \E file_id \in FileIds :
        LET w == ensure_initialized(wasm)
        IN  wasm' = [w EXCEPT !.freed = IF w.buffers[file_id] = NoBuffer THEN w.freed
                                        ELSE w.freed \cup {file_id},
                              !.last = [id |-> file_id, op |-> "free_file_buffer",
                                        result |-> RsOk(<<>>)]]
    /\ WasmFrame

\* lib.rs 172-182
free_file_buffer ==
    /\ \E file_id \in FileIds :
        LET w == ensure_initialized(wasm)
        IN  wasm' = [w EXCEPT !.buffers[file_id] = NoBuffer,
                              !.freed = IF w.buffers[file_id] = NoBuffer THEN w.freed
                                        ELSE w.freed \cup {file_id},
                              !.last = [id |-> file_id, op |-> "free_file_buffer",
                                        result |-> RsOk(<<>>)]]
    /\ WasmFrame

\* lib.rs 217-232
get_content ==
    /\ \E file_id \in FileIds :
        LET w == ensure_initialized(wasm)
        IN  wasm' = [w EXCEPT !.last =
                [id |-> file_id, op |-> "get_content",
                 result |-> IF w.buffers[file_id] = NoBuffer THEN RsErr("not found")
                            ELSE from_utf8(w.buffers[file_id][1].content)]]
    /\ WasmFrame

\* lib.rs 63-85
get_file_info ==
    /\ \E file_id \in FileIds :
        LET w == ensure_initialized(wasm)
        IN  wasm' = [w EXCEPT !.last =
                [id |-> file_id, op |-> "get_file_info",
                 result |-> IF w.buffers[file_id] = NoBuffer THEN RsErr("not found")
                            ELSE RsOk(get_stats(w.buffers[file_id][1]))]]
    /\ WasmFrame

\* the lookup `map.get(&file_id).ok_or_else(..)?` followed by `found`
ReadBuffer(op, file_id, found(_)) ==
    LET w == ensure_initialized(wasm)
    IN  /\ wasm' = [w EXCEPT !.last =
                [id |-> file_id, op |-> op,
                 result |-> IF w.buffers[file_id] = NoBuffer THEN RsErr("not found")
                            ELSE found(w.buffers[file_id][1])]]
        /\ WasmFrame

\* lib.rs 90-105
wasm_get_line_range ==
    \E file_id \in FileIds, start_line \in {0, 1} :
        ReadBuffer("get_line_range", file_id,
                   LAMBDA buffer : get_line_range(buffer, start_line, 1))

\* lib.rs 110-128
search_file ==
    \E file_id \in FileIds :
        ReadBuffer("search_file", file_id, LAMBDA buffer : search(buffer, <<"a">>, 1))

\* lib.rs 132-148
validate_json ==
    \E file_id \in FileIds :
        ReadBuffer("validate_json", file_id, buffer_validate_json)

\* lib.rs 152-167
format_json ==
    \E file_id \in FileIds :
        ReadBuffer("format_json", file_id, LAMBDA buffer : buffer_format_json(buffer, 2))

\* the sum of the values of a function over ids
RECURSIVE Total(_, _)
Total(f, ids) ==
    IF ids = {} THEN 0
    ELSE LET id == CHOOSE i \in ids : TRUE
         IN  f[id] + Total(f, ids \ {id})

\* lib.rs 186-212
MemoryStats(buffers) ==
    LET held == {id \in FileIds : buffers[id] # NoBuffer}
        total_size == Total([id \in held |-> get_stats(buffers[id][1]).size], held)
        total_index_size ==
            Total([id \in held |-> get_stats(buffers[id][1]).index_size], held)
    IN  [file_count |-> Cardinality(held),
         total_content_size |-> total_size,
         total_index_size |-> total_index_size,
         total_size |-> total_size + total_index_size]

get_memory_stats ==
    LET w == ensure_initialized(wasm)
    IN  /\ wasm' = [w EXCEPT !.last = [id |-> 0, op |-> "get_memory_stats",
                                       result |-> RsOk(MemoryStats(w.buffers))]]
        /\ WasmFrame

(***************************************************************************)
(* Application: sanitize_filename of save_temp_pdf.                        *)
(***************************************************************************)
\* char::is_alphanumeric, on the characters the names are written with
Alphanumeric ==
    {"a", "c", "d", "e", "f", "i", "l", "m", "n", "o", "p", "r", "s", "t", "w",
     "1", "2", "3"}

\* a plausible slip: only blanks are dropped
Kept_but_blanks(c) == c # " "
\* print.rs 246-251
Kept(c) == c \in Alphanumeric \/ c = "." \/ c = "-" \/ c = "_"
sanitize_filename(filename) == SelectSeq(filename, Kept)

MaxName == 4
Filenames ==
    UNION {[1..n -> {".", "/", "a"}] : n \in 0..MaxName}
        \cup { <<".", ".", "/", ".", ".", "/", "e", "t", "c", "/", "p", "a", "s", "s", "w", "d">>,
               <<"n", "o", "r", "m", "a", "l", "-", "f", "i", "l", "e", "_", "1", "2", "3", ".", "p", "d", "f">>,
               <<"f", "i", "l", "e", " ", "w", "i", "t", "h", " ", "s", "p", "a", "c", "e", "s", ".", "p", "d", "f">>,
               <<"f", "i", "l", "e", "@", "#", "$", "%", ".", "p", "d", "f">> }
SanitizeName ==
    \E filename \in Filenames :
        CalcStep("sanitize_filename", filename, sanitize_filename(filename))

\* std::env::temp_dir
TempDir == <<"/", "t", "m", "p">>
TempPrefix == <<"t", "i", "d", "y", "c", "o", "d", "e", "_">>
DocumentPdf == <<"d", "o", "c", "u", "m", "e", "n", "t", ".", "p", "d", "f">>

\* Path::join: an absolute path replaces the base, any other is appended
PathJoin(base, path) ==
    IF path # <<>> /\ path[1] = "/" THEN path
    ELSE IF base # <<>> /\ base[Len(base)] = "/" THEN base \o path
    ELSE base \o <<"/">> \o path

\* print.rs 6-26: the path the data is written to
save_temp_pdf(filename) ==
    PathJoin(TempDir, TempPrefix \o sanitize_filename(filename))

\* lib.rs 2280-2301
save_pdf_temp(filename) ==
    LET filtered == SelectSeq(filename, Kept)
        safe_filename == IF filtered = <<>> THEN DocumentPdf ELSE filtered
    IN  PathJoin(TempDir, TempPrefix \o safe_filename)

SaveTempPdf ==
    \E filename \in Filenames :
        CalcStep("save_temp_pdf", filename, save_temp_pdf(filename))

SavePdfTemp ==
    \E filename \in Filenames :
        CalcStep("save_pdf_temp", filename, save_pdf_temp(filename))

(***************************************************************************)
(* lib.rs: each operation is compiled to a call of the build target's      *)
(* backend, and to Err(UnsupportedPlatform) on a target that has none.     *)
(***************************************************************************)
BuildTargets == Targets \cup {"other"}

UnsupportedPlatform == [ok |-> FALSE, error |-> "UnsupportedPlatform", value |-> <<>>]

\* lib.rs 76-92 on a target without backend
unsupported_print_pdf ==
    /\ target \notin Targets
    /\ req.state = "new"
    /\ req' = [req EXCEPT !.state = "returned",
                          !.result = Err("UnsupportedPlatform", <<>>)]
    /\ UNCHANGED <<file, worker, lp>>
    /\ UNCHANGED <<cacheVars, stageVars, calc, appVars>>

\* lib.rs 135-151 and 171-187 on a target without backend
Unsupported(t) ==
    /\ thr[t].pc = "unsupported"
    /\ ThreadStep(t, Returned(thr[t], UnsupportedPlatform))
    /\ UNCHANGED <<PRINTER_CACHE, MEDIA_CACHE, printerLock, mediaLock, lastOk>>

\* lib.rs 153-169: get_default_printer, one call from entry to return
\* (windows.rs 420-438, linux.rs 104-122)
DefaultPrinterCall(t) ==
    /\ thr[t].pc \in {"idle", "done"}
    /\ \E needed \in BOOLEAN, success \in BOOLEAN, spawned \in BOOLEAN,
          name \in OSDefaultPrinters :
        LET f == [IdleThread EXCEPT !.op = "get_default_printer"]
        IN  IF target = "windows"
            THEN ThreadStep(t, Returned([f EXCEPT !.os = <<"GetDefaultPrinterW">>],
                                        DirOk(get_default_printer(needed, success, name))))
            ELSE IF target = "linux"
            THEN IF ~spawned
                 THEN ThreadStep(t, Returned([f EXCEPT !.os = <<"lpstat -d">>],
                                             PrinterLookupFailed))
                 ELSE ThreadStep(t, Returned([f EXCEPT !.os = <<"lpstat -d">>],
                                             DirOk(IF success THEN name ELSE None)))
            ELSE ThreadStep(t, Returned(f, UnsupportedPlatform))
    /\ UNCHANGED <<PRINTER_CACHE, MEDIA_CACHE, printerLock, mediaLock, lastOk>>

(***************************************************************************)
(* macOS (application): print_pdf_macos and print_pdf_native spawn         *)
(* osascript with a script that drives Preview, and return at once.  The   *)
(* script runs one statement at a time; the user acts on Preview meanwhile.*)
(***************************************************************************)
\* Preview and the script: nothing runs, no document of ours is open
IdlePreview ==
    [dialog |-> "none", doc |-> "none", entry |-> "", front |-> "none", log |-> <<>>,
     others |-> 0, pc |-> "idle", ret |-> "pending", running |-> TRUE]

MaxWindows == 2      \* other documents Preview may have open

PreviewFrame ==
    UNCHANGED <<file, req, worker, lp, cacheVars, stageVars, calc, wasm, recent>>

\* src-tauri print.rs 98-106 / lib.rs 2345-2349: Command::spawn, then Ok
SpawnScript(entry, others, spawned) ==
    IF spawned
    THEN [IdlePreview EXCEPT !.entry = entry, !.pc = "open", !.others = others,
                             !.ret = "Ok"]
    ELSE [IdlePreview EXCEPT !.entry = entry, !.pc = "not_run", !.others = others,
                             !.ret = "Err"]

\* print.rs 59-107
print_pdf_macos ==
    /\ target = "macos"
    /\ preview.pc = "idle"
    /\ \E others \in 0..MaxWindows, spawned \in BOOLEAN :
        preview' = SpawnScript("print_pdf_macos", others, spawned)
    /\ PreviewFrame

\* lib.rs 2305-2350: the same script behind a check that the path exists
print_pdf_native ==
    /\ target = "macos"
    /\ preview.pc = "idle"
    /\ \E others \in 0..MaxWindows, spawned \in BOOLEAN :
        preview' = IF ~PathExists(file)
                   THEN [IdlePreview EXCEPT !.entry = "print_pdf_native",
                                            !.pc = "not_run", !.ret = "Err"]
                   ELSE SpawnScript("print_pdf_native", others, spawned)
    /\ PreviewFrame

ScriptStep(f) ==
    /\ preview' = f
    /\ PreviewFrame

Logged(f, statement) == [f EXCEPT !.log = f.log \o <<statement>>]

\* set theDoc to open (POSIX file ...); activate: outside any try block, an
\* error ends the script
OpenDocument ==
    /\ preview.pc = "open"
    /\ \E opened \in BOOLEAN :
        IF opened /\ file = "file"
        THEN ScriptStep([Logged(preview, "open") EXCEPT
                            !.pc = "print", !.doc = "open", !.front = "doc"])
        ELSE ScriptStep([Logged(preview, "open") EXCEPT !.pc = "aborted"])

\* try / print theDoc with print dialog / end try: the statement ends when
\* the user prints or cancels, or with an error; the try block swallows it
AfterPrint(outcome) == "close"

PrintDialog ==
    /\ preview.pc = "print"
    /\ \E outcome \in {"printed", "cancelled", "error"} :
        ScriptStep([Logged(preview, "print") EXCEPT
                        !.pc = AfterPrint(outcome), !.dialog = outcome])

\* the user closes the document by hand while the script sleeps
UserClosesDocument ==
    /\ preview.pc = "close"
    /\ preview.doc = "open"
    /\ ScriptStep([preview EXCEPT !.doc = "closed_by_user",
                                  !.front = IF preview.others > 0 THEN "other" ELSE "none"])

\* the user brings another document to the front
UserSwitchesWindow ==
    /\ preview.pc = "close"
    /\ preview.doc = "open"
    /\ preview.others > 0
    /\ preview.front = "doc"
    /\ ScriptStep([preview EXCEPT !.front = "other"])

\* try / close theDoc saving no / on error ... : fails when the document is
\* gone, and may fail while it is open
CloseDocument ==
    /\ preview.pc = "close"
    /\ \E closed \in BOOLEAN :
        IF closed /\ preview.doc = "open"
        THEN ScriptStep([Logged(preview, "close theDoc") EXCEPT
                            !.pc = "count", !.doc = "closed",
                            !.front = IF preview.others > 0 THEN "other" ELSE "none"])
        ELSE ScriptStep([Logged(preview, "close theDoc") EXCEPT !.pc = "fallback"])

\* on error / try / close window 1 saving no / end try: window 1 is the
\* front window, whichever document it shows
CloseWindow1 ==
    /\ preview.pc = "fallback"
    /\ \E closed \in BOOLEAN :
        LET f == [Logged(preview, "close window 1") EXCEPT !.pc = "count"]
        IN  IF ~closed \/ preview.front = "none"
            THEN ScriptStep(f)
            ELSE IF preview.front = "doc"
            THEN ScriptStep([f EXCEPT !.doc = "closed",
                                !.front = IF preview.others > 0 THEN "other" ELSE "none"])
            ELSE ScriptStep([f EXCEPT !.others = preview.others - 1,
                                !.front = IF preview.doc = "open" THEN "doc"
                                          ELSE IF preview.others > 1 THEN "other"
                                          ELSE "none"])

WindowCount(f) == f.others + (IF f.doc = "open" THEN 1 ELSE 0)

\* if (count of windows) is 0 then quit
QuitIfNoWindow(f) == WindowCount(f) = 0

CountWindows ==
    /\ preview.pc = "count"
    /\ IF QuitIfNoWindow(preview)
       THEN ScriptStep([Logged(Logged(preview, "count"), "quit") EXCEPT
                            !.pc = "done", !.running = FALSE])
       ELSE ScriptStep([Logged(preview, "count") EXCEPT !.pc = "done"])

(***************************************************************************)
(* src-tauri: RecentFilesState, the list of recently opened files.         *)
(***************************************************************************)
\* lib.rs 290: the list is cut at this length
RecentLimit == 15

RecentFrame == UNCHANGED <<file, req, worker, lp, now, PRINTER_CACHE, MEDIA_CACHE,
                           printerLock, mediaLock, thr, lastOk, stageVars, calc,
                           preview, wasm>>

\* str::replace of one character
ReplaceChar(text, from, to) ==
    [i \in 1..Len(text) |-> IF text[i] = from THEN to ELSE text[i]]

\* str::trim_start_matches / trim_end_matches
RECURSIVE TrimStartMatches(_, _)
TrimStartMatches(text, prefix) ==
    IF StartsWith(text, prefix)
    THEN TrimStartMatches(SubSeq(text, Len(prefix) + 1, Len(text)), prefix)
    ELSE text

RECURSIVE TrimEndSlashes(_)
TrimEndSlashes(text) ==
    IF text # <<>> /\ text[Len(text)] = "/"
    THEN TrimEndSlashes(SubSeq(text, 1, Len(text) - 1))
    ELSE text

\* str::replace("//", "/"): the matches from left to right, none overlapping
RECURSIVE ReplaceSlashes(_)
ReplaceSlashes(text) ==
    IF Len(text) < 2 THEN text
    ELSE IF text[1] = "/" /\ text[2] = "/"
    THEN <<"/">> \o ReplaceSlashes(SubSeq(text, 3, Len(text)))
    ELSE <<text[1]>> \o ReplaceSlashes(Tail(text))

\* lib.rs 318-320: `while normalized.contains("//")`
RECURSIVE CollapseSlashes(_)
CollapseSlashes(text) ==
    IF Find(text, <<"/", "/">>) = 0 THEN text ELSE CollapseSlashes(ReplaceSlashes(text))

\* str::to_lowercase of the letters used here
to_lowercase(text) ==
    [i \in 1..Len(text) |-> IF text[i] = "A" THEN "a" ELSE text[i]]

ExtendedPrefix == <<"/", "/", "?", "/">>

\* lib.rs 313-328; cfg!(windows) is the build target
normalize_recent_path_for_compare(path, windows) ==
    LET slashed == ReplaceChar(path, "\\", "/")
        stripped == IF StartsWith(slashed, ExtendedPrefix)
                    THEN TrimStartMatches(slashed, ExtendedPrefix)
                    ELSE slashed
        collapsed == CollapseSlashes(stripped)
        ended == IF Len(collapsed) > 1 /\ collapsed[Len(collapsed)] = "/"
                 THEN TrimEndSlashes(collapsed)
                 ELSE collapsed
    IN  IF windows THEN to_lowercase(ended) ELSE ended

\* a plausible slip: the existing entry is compared as it stands
RECURSIVE Deduplicated_exact(_, _, _, _)
Deduplicated_exact(new_list, existing, needle, windows) ==
    IF existing = <<>> THEN new_list
    ELSE IF Head(existing) = needle
    THEN Deduplicated_exact(new_list, Tail(existing), needle, windows)
    ELSE LET pushed == Append(new_list, Head(existing))
         IN  IF Len(pushed) >= RecentLimit THEN pushed
             ELSE Deduplicated_exact(pushed, Tail(existing), needle, windows)

\* lib.rs 284-293: the loop over the existing entries, with its break
RECURSIVE Deduplicated(_, _, _, _)
Deduplicated(new_list, existing, needle, windows) ==
    IF existing = <<>> THEN new_list
    ELSE IF normalize_recent_path_for_compare(Head(existing), windows) = needle
    THEN Deduplicated(new_list, Tail(existing), needle, windows)
    ELSE LET pushed == Append(new_list, Head(existing))
         IN  IF Len(pushed) >= RecentLimit THEN pushed
             ELSE Deduplicated(pushed, Tail(existing), needle, windows)

\* lib.rs 270-300: <<changed, files>>
RecentAdd(files, path, windows) ==
    LET normalized == Trim(path)
    IN  IF normalized = <<>> THEN <<FALSE, files>>
        ELSE LET needle == normalize_recent_path_for_compare(normalized, windows)
                 new_list == Deduplicated(<<normalized>>, files, needle, windows)
             IN  <<new_list # files, new_list>>

\* the paths added: three spellings of one file (/a, " //?/\\a/" and /A), an
\* empty and a blank path, and files not in the list, taken in order
Spellings ==
    { <<"/", "a">>,
      <<" ", "/", "/", "?", "/", "\\", "\\", "a", "/">>,
      <<"/", "A">> }
BlankPaths == {<<>>, <<" ">>}
FreshLetters == <<"c", "d", "e", "f", "g", "h", "i", "j", "k", "l", "m", "n", "o", "p",
                  "q", "r", "s">>
MaxFresh == 16
Fresh(k) == <<"/", FreshLetters[k]>>

IdleRecent ==
    [files |-> <<>>, fresh |-> 0, latest |-> <<>>,
     last |-> [changed |-> FALSE, op |-> "none", path |-> <<>>, returned |-> <<>>]]

\* RecentFilesState::add
recent_add ==
    /\ \E path \in Spellings \cup BlankPaths
                    \cup (IF recent.fresh < MaxFresh /\ recent.fresh < Len(FreshLetters)
                          THEN {Fresh(recent.fresh + 1)} ELSE {}) :
        LET out == RecentAdd(recent.files, path, target = "windows")
        IN  recent' = [files |-> out[2],
                       fresh |-> IF path \in Spellings \cup BlankPaths THEN recent.fresh
                                 ELSE recent.fresh + 1,
                       latest |-> IF Trim(path) = <<>> THEN recent.latest
                                  ELSE <<Trim(path)>>,
                       last |-> [changed |-> out[1], op |-> "add", path |-> path,
                                 returned |-> out[2]]]
    /\ UNCHANGED target
    /\ RecentFrame

\* lib.rs 302-309
recent_clear ==
    /\ recent' = [recent EXCEPT !.files = <<>>, !.latest = <<>>, !.fresh = 0,
                                !.last = [changed |-> FALSE, op |-> "clear",
                                          path |-> <<>>, returned |-> <<>>]]
    /\ UNCHANGED target
    /\ RecentFrame

(***************************************************************************)
(* The specifications.                                                     *)
(***************************************************************************)
IdleWasm ==
    [buffers |-> [id \in FileIds |-> NoBuffer], freed |-> {}, initialized |-> FALSE,
     last |-> [id |-> 0, op |-> "none", result |-> [ok |-> TRUE, value |-> <<>>]],
     made |-> <<>>, next |-> 1, returned |-> <<>>]
AppIdle ==
    /\ preview = IdlePreview
    /\ wasm = IdleWasm
    /\ recent = IdleRecent

PrintIdle ==
    /\ file = "file"
    /\ req = NewRequest
    /\ worker = IdleWorker
    /\ lp = IdleLp

CacheIdle ==
    /\ target = "windows"
    /\ now = 0
    /\ PRINTER_CACHE = <<>>
    /\ MEDIA_CACHE = [k \in MediaKeys |-> <<>>]
    /\ printerLock = 0
    /\ mediaLock = 0
    /\ thr = [t \in Threads |-> IdleThread]
    /\ lastOk = [k \in LastKeys |-> -1]

StageIdle ==
    /\ ms = 0
    /\ tmp = [path \in 0..MaxMillis |-> NoFile]
    /\ calls = [t \in Threads |-> IdleCall]

InitPrint ==
    /\ file \in PathKinds
    /\ req = NewRequest
    /\ worker = IdleWorker
    /\ lp = IdleLp
    /\ target \in Targets
    /\ now = 0
    /\ PRINTER_CACHE = <<>>
    /\ MEDIA_CACHE = [k \in MediaKeys |-> <<>>]
    /\ printerLock = 0
    /\ mediaLock = 0
    /\ thr = [t \in Threads |-> IdleThread]
    /\ lastOk = [k \in LastKeys |-> -1]
    /\ StageIdle
    /\ calc = NoCalc
    /\ AppIdle

NextPrint ==
    \/ print_pdf
    \/ CoInitialize
    \/ LoadDocument
    \/ CreateDC
    \/ DeviceCaps
    \/ StartDoc
    \/ GetPage
    \/ PageSize
    \/ RenderFirst
    \/ RenderReduced
    \/ RenderDefault
    \/ Decode
    \/ StartPage
    \/ StretchDIBits
    \/ EndPage
    \/ EndDoc
    \/ linux_print_pdf
    \/ LpExit
    \/ linux_print_pdf_return

SpecPrint == InitPrint /\ [][NextPrint]_vars

InitCache ==
    /\ target \in Targets
    /\ now = 0
    /\ PRINTER_CACHE = <<>>
    /\ MEDIA_CACHE = [k \in MediaKeys |-> <<>>]
    /\ printerLock = 0
    /\ mediaLock = 0
    /\ thr = [t \in Threads |-> IdleThread]
    /\ lastOk = [k \in LastKeys |-> -1]
    /\ PrintIdle
    /\ StageIdle
    /\ calc = NoCalc
    /\ AppIdle

ThreadNext(t) ==
    \/ BeginCall(t)
    \/ LockForGetCachedPrinters(t)
    \/ get_cached_printers(t)
    \/ PrintersDefault(t)
    \/ EnumPrintersSize(t)
    \/ EnumPrinters(t)
    \/ LockForSetCachedPrinters(t)
    \/ set_cached_printers(t)
    \/ MediaTarget(t)
    \/ LockForGetCachedMedia(t)
    \/ get_cached_media(t)
    \/ OpenPrinter(t)
    \/ EnumFormsSize(t)
    \/ EnumForms(t)
    \/ LockForSetCachedMedia(t)
    \/ set_cached_media(t)
    \/ linux_get_printers(t)
    \/ linux_get_printer_media(t)

\* one caller, every clock step
NextCache ==
    \/ Tick(TickSteps)
    \/ ThreadNext(1)

SpecCache == InitCache /\ [][NextCache]_vars

\* concurrent callers, all within one time to live: the clock stands
NextThreads == \E t \in Threads : ThreadNext(t)

SpecThreads == InitCache /\ [][NextThreads]_vars

\* concurrent callers of get_printers of the Windows backend while the clock runs
InitRace ==
    /\ CacheIdle
    /\ PrintIdle
    /\ StageIdle
    /\ calc = NoCalc
    /\ AppIdle

\* a call of get_printers
BeginPrinters(t) ==
    /\ BeginCall(t)
    /\ thr'[t].op = "get_printers"

RaceNext(t) ==
    \/ BeginPrinters(t)
    \/ LockForGetCachedPrinters(t)
    \/ get_cached_printers(t)
    \/ PrintersDefault(t)
    \/ EnumPrintersSize(t)
    \/ EnumPrinters(t)
    \/ LockForSetCachedPrinters(t)
    \/ set_cached_printers(t)

NextRace ==
    \/ Tick(TickSteps)
    \/ \E t \in Threads : RaceNext(t)

SpecRace == InitRace /\ [][NextRace]_vars

\* print_pdf_bytes calls of concurrent callers against the wall clock
InitStage ==
    /\ CacheIdle
    /\ PrintIdle
    /\ StageIdle
    /\ calc = NoCalc
    /\ AppIdle

CallNext(t) ==
    \/ StageBegin(t)
    \/ DecodePayload(t)
    \/ create_temp_pdf_path(t)
    \/ WriteTemp(t)
    \/ DispatchPrint(t)
    \/ JobLoad(t)
    \/ JobFinish(t)

NextStage ==
    \/ TickMs
    \/ \E t \in Threads : CallNext(t)

SpecStage == InitStage /\ [][NextStage]_vars

\* the pure computations, on every input of their sets
InitCalc ==
    /\ CacheIdle
    /\ PrintIdle
    /\ StageIdle
    /\ calc = NoCalc
    /\ AppIdle

NextCalc ==
    \/ RasterSize
    \/ FitRect
    \/ ParseMedia
    \/ BuildCommand
    \/ ListPrinters
    \/ LineCount
    \/ LineRange
    \/ SearchBuffer
    \/ SanitizeName
    \/ SaveTempPdf
    \/ SavePdfTemp

SpecCalc == InitCalc /\ [][NextCalc]_vars

\* one caller that issues one call of one of the five operations on any build
\* target; the calls are synchronous, so a call starts only when no other runs
PrintQuiet == req = NewRequest /\ lp = IdleLp /\ worker = IdleWorker
DirQuiet == \A t \in Threads : thr[t].pc \in {"idle", "done"} /\ thr[t].os = <<>> /\ thr[t].op = ""
StageQuiet == calls = [t \in Threads |-> IdleCall]

InitDispatch ==
    /\ target \in BuildTargets
    /\ now = 0
    /\ PRINTER_CACHE = <<>>
    /\ MEDIA_CACHE = [k \in MediaKeys |-> <<>>]
    /\ printerLock = 0
    /\ mediaLock = 0
    /\ thr = [t \in Threads |-> IdleThread]
    /\ lastOk = [k \in LastKeys |-> -1]
    /\ PrintIdle
    /\ StageIdle
    /\ calc = NoCalc
    /\ AppIdle

CallPrintPdf ==
    /\ DirQuiet /\ StageQuiet
    /\ \/ print_pdf
       \/ linux_print_pdf
       \/ LpExit
       \/ linux_print_pdf_return
       \/ unsupported_print_pdf

CallDirectory ==
    /\ PrintQuiet /\ StageQuiet
    /\ \/ ThreadNext(1)
       \/ Unsupported(1)

CallDefaultPrinter ==
    /\ PrintQuiet /\ StageQuiet /\ DirQuiet
    /\ DefaultPrinterCall(1)

CallPrintPdfBytes ==
    /\ PrintQuiet /\ DirQuiet
    /\ \/ StageBegin(1)
       \/ DecodePayload(1)
       \/ create_temp_pdf_path(1)
       \/ WriteTemp(1)
       \/ DispatchPrint(1)

NextDispatch ==
    \/ CallPrintPdf
    \/ CallDirectory
    \/ CallDefaultPrinter
    \/ CallPrintPdfBytes

SpecDispatch == InitDispatch /\ [][NextDispatch]_vars

InitPreview ==
    /\ file \in PathKinds
    /\ req = NewRequest
    /\ worker = IdleWorker
    /\ lp = IdleLp
    /\ target = "macos"
    /\ now = 0
    /\ PRINTER_CACHE = <<>>
    /\ MEDIA_CACHE = [k \in MediaKeys |-> <<>>]
    /\ printerLock = 0
    /\ mediaLock = 0
    /\ thr = [t \in Threads |-> IdleThread]
    /\ lastOk = [k \in LastKeys |-> -1]
    /\ StageIdle
    /\ calc = NoCalc
    /\ AppIdle

NextPreview ==
    \/ print_pdf_macos
    \/ print_pdf_native
    \/ OpenDocument
    \/ PrintDialog
    \/ UserClosesDocument
    \/ UserSwitchesWindow
    \/ CloseDocument
    \/ CloseWindow1
    \/ CountWindows

SpecPreview == InitPreview /\ [][NextPreview]_vars

InitWasm ==
    /\ CacheIdle
    /\ PrintIdle
    /\ StageIdle
    /\ calc = NoCalc
    /\ AppIdle

NextWasm ==
    \/ wasm_init
    \/ create_file_buffer
    \/ free_file_buffer
    \/ get_content
    \/ get_file_info
    \/ wasm_get_line_range
    \/ search_file
    \/ validate_json
    \/ format_json
    \/ get_memory_stats

SpecWasm == InitWasm /\ [][NextWasm]_vars

\* the recent files list on either build
InitRecent == InitCache

NextRecent ==
    \/ recent_add
    \/ recent_clear

SpecRecent == InitRecent /\ [][NextRecent]_vars

Spec == SpecPrint

(***************************************************************************)
(* Properties of the print request (SpecPrint).                            *)
(***************************************************************************)
Succeeded(op) == \E i \in 1..Len(worker.log) : worker.log[i].op = op /\ worker.log[i].ok
Count(op) == Len(SelectSeq(worker.log, LAMBDA e : e.op = op))

\* C1: on every exit of print_pdf_sync reached after the printer device
\* context was created, DeleteDC has been called exactly once, and once COM
\* was initialized CoUninitialize has been called exactly once.
C1_ReleasedOnEveryExit ==
    worker.pc = "done" =>
        /\ Succeeded("CreateDCW") => Count("DeleteDC") = 1
        /\ Succeeded("CoInitializeEx") => Count("CoUninitialize") = 1

\* the steps of a page whose failure C2 names
PageSteps == {"GetPage", "RenderDefault", "BitmapDecoder", "StartPage", "StretchDIBits", "EndPage"}
PageCalls == PageSteps \cup {"Size", "RenderWithOptions"}
PageFailures == {i \in 1..Len(worker.log) : worker.log[i].op \in PageSteps /\ ~worker.log[i].ok}
FirstPageFailure == CHOOSE i \in PageFailures : \A j \in PageFailures : i <= j

\* C2: after StartDoc succeeded, the first failure of a per-page step is
\* terminal: no call for a later page follows it, StartDoc is not called
\* again, and EndDoc is called before the error is returned.
C2_PageFailureTerminal ==
    (worker.pc = "done" /\ Succeeded("StartDocW") /\ PageFailures # {}) =>
        LET i == FirstPageFailure
            log == worker.log
        IN  /\ ~worker.result.ok
            /\ \A j \in (i + 1)..Len(log) :
                  log[j].op \in PageCalls => log[j].page <= log[i].page
            /\ Count("StartDocW") = 1
            /\ \E j \in (i + 1)..Len(log) : log[j].op = "EndDoc"

\* the render attempts made for page p, in order
RenderCalls(p) ==
    SelectSeq(worker.log, LAMBDA e : e.op \in {"RenderWithOptions", "RenderDefault"} /\ e.page = p)

\* C3: for every page the render attempts are a prefix of: explicit options
\* at the target size, explicit options at half the target size on each axis
\* (at least 1), the default render; an attempt follows only failed ones, a
\* failed one is followed by the next, the first success hands its bitmap to
\* the decoder, and three failures return PrintCommandFailed with the three
\* errors in the order of the attempts.
C3_RenderFallbackChain ==
    \A p \in 0..MaxPages :
        LET r == RenderCalls(p)
            n == Len(r)
            current == p = worker.index /\ worker.pc # "done"
        IN  /\ n <= 3
            /\ \A i \in 1..(n - 1) : ~r[i].ok
            /\ n >= 1 => /\ r[1].op = "RenderWithOptions"
                         /\ p = worker.index =>
                                (r[1].w = worker.target_w /\ r[1].h = worker.target_h)
            /\ n >= 2 => /\ r[2].op = "RenderWithOptions"
                         /\ r[2].w = (IF r[1].w \div 2 >= 1 THEN r[1].w \div 2 ELSE 1)
                         /\ r[2].h = (IF r[1].h \div 2 >= 1 THEN r[1].h \div 2 ELSE 1)
            /\ n = 3 => r[3].op = "RenderDefault"
            /\ (current /\ n = 1 /\ ~r[1].ok) => worker.pc = "render_reduced"
            /\ (current /\ n = 2 /\ ~r[2].ok) => worker.pc = "render_default"
            /\ (current /\ n >= 1 /\ r[n].ok) =>
                   /\ worker.pc \in {"decode", "start_page", "stretch", "end_page"}
                   /\ worker.width = r[n].w /\ worker.height = r[n].h
            /\ (n = 3 /\ ~r[3].ok) =>
                   /\ worker.pc = "done"
                   /\ worker.result.error = "PrintCommandFailed"
                   /\ worker.result.message =
                        <<"Render failed after retries: ", r[1].err, "; ", r[2].err, "; ", r[3].err>>

\* all three tiers failed, with errors that tell the order, on an odd width
C3_Witness ==
    /\ worker.pc = "done"
    /\ worker.target_w = 1275
    /\ worker.result.message =
          <<"Render failed after retries: ", "E_FAIL", "; ", "E_OUTOFMEMORY", "; ", "E_OUTOFMEMORY">>
    /\ LET r == RenderCalls(worker.index)
       IN  Len(r) = 3 /\ r[2].w = 637 /\ r[2].h = 825

\* C10: print_pdf started exactly one worker for a request whose path exists
\* and whose printer is resolved and none for a rejected one; it returned Ok
\* with the message of a submitted job and no job id; it returned before the
\* worker made a call; what it returned never changes, whatever the worker
\* does.
C10_Returned ==
    /\ req.state = "new" => worker.spawned = 0
    /\ req.state = "returned" =>
        LET accepted == req.path_exists /\ (req.printer_name # None \/ req.default # None)
        IN  /\ req.result.ok <=> accepted
            /\ req.result.ok =>
                 /\ worker.spawned = 1
                 /\ req.result.value.job_id = NoJob
                 /\ req.result.value.message = "Print job submitted (async)"
                 /\ req.result.value.printer = worker.printer
            /\ ~req.result.ok => worker.spawned = 0 /\ worker.pc = "idle"

C10_FireAndForget ==
    /\ []C10_Returned
    /\ [][/\ (req.state = "new" /\ req'.state = "returned" /\ req'.result.ok) =>
                (worker'.pc = "start" /\ worker'.log = <<>>)
          /\ req.state = "returned" => req' = req]_vars

\* the caller holds Ok although the worker has failed
C10_Witness ==
    /\ req.state = "returned" /\ req.result.ok
    /\ worker.pc = "done" /\ ~worker.result.ok

(***************************************************************************)
(* Properties of the directory calls (SpecCache, SpecThreads).             *)
(***************************************************************************)
Enumerations == {"EnumPrintersW", "OpenPrinterW", "EnumFormsW"}
Enumerated(os) == \E i \in 1..Len(os) : os[i] \in Enumerations

\* what a lookup that finds entry `e` at time `t` must do: serve e.value
\* without an enumeration up to CACHE_TTL seconds after e.fetched_at, and go
\* on to the enumeration at `miss_pc` after that
LookupOf(e, t, f2, miss_pc) ==
    IF t - e.fetched_at <= CACHE_TTL
    THEN f2.pc = "done" /\ f2.ret = DirOk(e.value) /\ ~Enumerated(f2.os)
    ELSE f2.pc = miss_pc /\ ~f2.hit /\ f2.ret = DirPending

C4_Lookup(t) ==
    /\ (thr[t].pc = "get_cached_printers_locked" /\ thr'[t] # thr[t] /\ PRINTER_CACHE # <<>>) =>
          LookupOf(PRINTER_CACHE[1], now, thr'[t], "default_printer")
    /\ (thr[t].pc = "get_cached_media_locked" /\ thr'[t] # thr[t]
            /\ MEDIA_CACHE[thr[t].name] # <<>>) =>
          LookupOf(MEDIA_CACHE[thr[t].name][1], now, thr'[t], "open_printer")

\* a call that looked the cache up and was not served from it has enumerated
C4_Missed ==
    \A t \in Threads :
        (target = "windows" /\ thr[t].pc = "done" /\ thr[t].at >= 0 /\ ~thr[t].hit) =>
            Enumerated(thr[t].os)

\* C4: a lookup of the printer list or of a printer's media made at most 30 s
\* after the entry's fetched_at returns the stored value with no OS
\* enumeration; one made later does not return it and the call enumerates.
C4_CacheTtl ==
    /\ []C4_Missed
    /\ [][\A t \in Threads : C4_Lookup(t)]_vars

\* the printer list is served exactly CACHE_TTL seconds after it was fetched
C4_Witness ==
    \E t \in Threads :
        /\ thr[t].pc = "done" /\ thr[t].hit /\ thr[t].op = "get_printers"
        /\ PRINTER_CACHE # <<>>
        /\ thr[t].at - PRINTER_CACHE[1].fetched_at = CACHE_TTL

EntryOf(t) ==
    IF thr[t].op = "get_printers" THEN PRINTER_CACHE ELSE MEDIA_CACHE[thr[t].name]

\* C5: a get_printers or get_printer_media call that missed the cache and
\* whose enumeration succeeded has stored what it returns, whatever it is,
\* under its key before it returned.
C5_ReadThroughStore ==
    \A t \in Threads :
        (target = "windows" /\ thr[t].pc = "done" /\ thr[t].at >= 0
            /\ ~thr[t].hit /\ thr[t].ret.ok) =>
            /\ thr[t].stored
            /\ EntryOf(t) # <<>>
            /\ EntryOf(t)[1].value = thr[t].ret.value

\* C6 as stated: a call answered from a live entry has made no OS call
C6_HitMakesNoOsCall ==
    \A t \in Threads : (thr[t].pc = "done" /\ thr[t].hit) => thr[t].os = <<>>

\* C6: a call answered from a live entry has made no enumeration call; the
\* one OS call it may have made is the default-printer query, made exactly
\* by get_printer_media(None) to find its key.
C6_HitMakesNoEnumeration ==
    \A t \in Threads :
        (thr[t].pc = "done" /\ thr[t].hit) =>
            thr[t].os = (IF thr[t].op = "get_printer_media" /\ thr[t].arg = None
                         THEN <<"GetDefaultPrinterW">> ELSE <<>>)

C6_Witness ==
    \E t \in Threads :
        /\ thr[t].pc = "done" /\ thr[t].hit
        /\ thr[t].op = "get_printer_media" /\ thr[t].arg = None

\* C7: no step of a get_printer_media call changes the printer list entry or
\* the media entry of another printer, no step of a get_printers call
\* changes a media entry, and the step on which a call fails changes no
\* entry at all.
C7_FailedRefreshFrame ==
    [][\A t \in Threads :
          thr'[t] # thr[t] =>
            /\ thr'[t].op = "get_printer_media" =>
                 /\ PRINTER_CACHE' = PRINTER_CACHE
                 /\ \A k \in MediaKeys \ {thr'[t].name} : MEDIA_CACHE'[k] = MEDIA_CACHE[k]
            /\ thr'[t].op = "get_printers" => MEDIA_CACHE' = MEDIA_CACHE
            /\ (thr'[t].pc = "done" /\ ~thr'[t].ret.ok) =>
                 (PRINTER_CACHE' = PRINTER_CACHE /\ MEDIA_CACHE' = MEDIA_CACHE)]_vars

\* the refresh of PrinterA's expired media failed; the other entries are there
C7_Witness ==
    \E t \in Threads :
        /\ thr[t].pc = "done" /\ ~thr[t].ret.ok
        /\ thr[t].op = "get_printer_media" /\ thr[t].name = "PrinterA"
        /\ MEDIA_CACHE["PrinterA"] # <<>>
        /\ thr[t].at - MEDIA_CACHE["PrinterA"][1].fetched_at > CACHE_TTL
        /\ MEDIA_CACHE["PrinterB"] # <<>>
        /\ PRINTER_CACHE # <<>>

PrinterLockPcs == {"get_cached_printers_locked", "set_cached_printers_locked"}
MediaLockPcs == {"get_cached_media_locked", "set_cached_media_locked"}
PrinterWaitPcs == {"get_cached_printers", "set_cached_printers"}
MediaWaitPcs == {"get_cached_media", "set_cached_media"}

\* C9: a thread holds a cache mutex exactly while it is inside the read or
\* write of that cache, so never while it enumerates and never two at once;
\* a call under way can always take a step unless it waits for the one mutex
\* another thread is holding, and that thread can take a step.
C9_IndependentLocks ==
    \A t \in Threads :
        /\ printerLock = t <=> thr[t].pc \in PrinterLockPcs
        /\ mediaLock = t <=> thr[t].pc \in MediaLockPcs
        /\ thr[t].pc \notin {"idle", "done"} =>
            \/ ENABLED ThreadNext(t)
            \/ /\ thr[t].pc \in PrinterWaitPcs
               /\ printerLock \in Threads \ {t}
               /\ ENABLED ThreadNext(printerLock)
            \/ /\ thr[t].pc \in MediaWaitPcs
               /\ mediaLock \in Threads \ {t}
               /\ ENABLED ThreadNext(mediaLock)

\* one thread is inside the media cache while the other, having missed the
\* printer list, enumerates the printers
C9_Witness ==
    /\ thr[1].pc = "enum_printers"
    /\ mediaLock = 2
    /\ thr[2].pc = "set_cached_media_locked"

(***************************************************************************)
(* Properties of print_pdf_bytes (SpecStage).                              *)
(***************************************************************************)
Staged(t) == calls[t].temp_path # NoPath

\* C11: two print_pdf_bytes calls never get the same temporary path, the job
\* of a call reads the bytes that call staged, and the file of a job that has
\* yet to read it is there.
C11_OwnTempFile ==
    /\ \A t, u \in Threads :
          (t # u /\ Staged(t) /\ Staged(u)) => calls[t].temp_path # calls[u].temp_path
    /\ \A t \in Threads :
          /\ calls[t].printed # <<>> => calls[t].printed = FileOf(calls[t].data)
          /\ calls[t].pc = "job" => tmp[calls[t].temp_path] # NoFile

StagingFailures == {"ReadFailed", "WriteFailed"}

\* C12: a payload that is no base64 ends the call with ReadFailed before a
\* temporary path was made, a failed write ends it with WriteFailed, and a
\* call that ended either way never built options for the backend or had a
\* job read a file.
C12_StagingErrors ==
    \A t \in Threads :
        /\ (calls[t].data_base64 \in Malformed /\ calls[t].pc \notin {"idle", "decode"}) =>
              /\ calls[t].pc = "done"
              /\ calls[t].result = Err("ReadFailed", <<"decode">>)
              /\ ~Staged(t)
        /\ calls[t].result.error = "ReadFailed" => calls[t].data_base64 \in Malformed
        /\ calls[t].result.error = "WriteFailed" => (calls[t].pc = "done" /\ Staged(t))
        /\ calls[t].result.error \in StagingFailures =>
              (calls[t].print_options = <<>> /\ calls[t].printed = <<>>)
        /\ (calls[t].pc = "done" /\ calls[t].print_options = <<>>) =>
              calls[t].result.error \in StagingFailures

\* one call was refused for its payload with nothing in the temporary
\* directory, the other for its write
C12_Witness ==
    /\ calls[1].pc = "done" /\ calls[1].result.error = "ReadFailed"
    /\ calls[2].pc = "done" /\ calls[2].result.error = "WriteFailed"
    /\ \A path \in DOMAIN tmp : tmp[path] = NoFile

C13_Decoded ==
    \A t \in Threads : \A d \in StageData :
        (calls[t].data_base64 = Encode(d) /\ calls[t].pc \notin {"idle", "decode"}) =>
            (calls[t].data = d /\ calls[t].result.error # "ReadFailed")

C13_Options ==
    \A t \in Threads :
        calls[t].print_options # <<>> =>
            LET o == calls[t].print_options[1]
                given == calls[t].options
            IN  /\ o.path = calls[t].temp_path
                /\ o.printer_name = given.printer_name
                /\ o.job_name = given.job_name
                /\ o.copies = given.copies
                /\ o.duplex = given.duplex
                /\ o.paper_size = given.paper_size
                /\ o.remove_after_print = given.remove_after_print

C13_Written ==
    \A t \in Threads :
        (calls[t].pc = "write" /\ calls'[t].pc = "print") =>
            tmp'[calls[t].temp_path] = FileOf(calls[t].data)

\* C13: the bytes decoded from Encode(d) are d, the file holds exactly the
\* decoded bytes when the write returns, and the options handed to the
\* backend name that file and carry every other option over unchanged.
C13_StagingRoundTrip ==
    /\ [](C13_Decoded /\ C13_Options)
    /\ [][C13_Written]_vars

\* four bytes with every bit pattern, staged and handed over with options
C13_Witness ==
    \E t \in Threads :
        /\ calls[t].pc = "job"
        /\ calls[t].data = <<251, 239, 190, 1>>
        /\ calls[t].data_base64 = <<"+", "+", "+", "+", "A", "Q", "=", "=">>
        /\ calls[t].options.printer_name = "PrinterA"
        /\ tmp[calls[t].temp_path] = FileOf(calls[t].data)

(***************************************************************************)
(* Properties of the backends' calls (SpecCache, SpecPrint).               *)
(***************************************************************************)
\* C14: a get_printer_media(None) call made where no default printer is
\* configured returns Ok with an empty list, on either backend.
C14_NoDefaultIsEmptyOk ==
    \A t \in Threads :
        (thr[t].pc = "done" /\ thr[t].op = "get_printer_media"
            /\ thr[t].arg = None /\ thr[t].name = "") =>
            thr[t].ret = DirOk(<<>>)

RemoveCalls == SelectSeq(worker.log, LAMBDA e : e.op = "remove_file")

C15_Windows ==
    /\ file = "removed" =>
          /\ worker.pc = "done" /\ worker.result.ok /\ worker.remove_after_print
          /\ Succeeded("EndDoc")
          /\ Count("EndPage") = worker.page_count
    /\ RemoveCalls # <<>> => (worker.remove_after_print /\ Succeeded("EndDoc"))
    /\ (worker.pc = "done" /\ (~worker.result.ok \/ ~worker.remove_after_print)) =>
          (RemoveCalls = <<>> /\ file # "removed")
    /\ (worker.pc = "done" /\ worker.result.ok /\ worker.remove_after_print) =>
          /\ Len(RemoveCalls) = 1
          /\ RemoveCalls[1].ok <=> file = "removed"
          /\ worker.result = Ok(PrintResult(SomeJob(1), worker.printer, "GDI print submitted"))

C15_Linux ==
    /\ file = "removed" =>
          /\ lp.state = "returned" /\ lp.result.ok /\ lp.remove_after_print
          /\ lp.status = "success"
    /\ (lp.state = "returned" /\ (~lp.result.ok \/ ~lp.remove_after_print)) =>
          /\ file = lp.path
          /\ \A i \in 1..Len(lp.os) : lp.os[i] # "remove_file"
    /\ (lp.state = "returned" /\ lp.result.ok /\ lp.remove_after_print) =>
          /\ lp.os[Len(lp.os)] = "remove_file"
          /\ lp.result = Ok(PrintResult(parse_lp_job_id(lp.stdout),
                               lp.result.value.printer, Trim(lp.stdout)))

\* C15: the file is removed only by a job that was asked to and went through
\* (EndDoc succeeded after every page; lp exited successfully); an error path
\* or an unset flag attempts no removal and leaves the file; the result of a
\* call that attempted the removal is the same whether or not it succeeded.
C15_RemoveAfterPrint ==
    IF target = "windows" THEN C15_Windows ELSE C15_Linux

\* the job went through, the removal it attempted failed, the result is Ok
C15_Witness ==
    /\ target = "windows"
    /\ worker.pc = "done" /\ worker.result.ok /\ worker.remove_after_print
    /\ worker.page_count = MaxPages
    /\ RemoveCalls # <<>> /\ ~RemoveCalls[1].ok
    /\ file = "file"

\* C16: a request whose path names no regular file is rejected with
\* PrintCommandFailed; no worker is started for it and no job is handed to
\* the spooler.
C16_RegularFileOnly ==
    /\ (req.state = "returned" /\ file \in {"missing", "dir"}) =>
          /\ req.result.error = "PrintCommandFailed"
          /\ worker.spawned = 0
    /\ (lp.state = "returned" /\ lp.path \in {"missing", "dir"}) =>
          /\ lp.result.error = "PrintCommandFailed"
          /\ lp.os = <<>>

(***************************************************************************)
(* Properties of the pure computations (SpecCalc).                         *)
(***************************************************************************)
Abs(n) == IF n < 0 THEN -n ELSE n

\* v is the fraction num / den rounded to the nearest integer
Rounded(v, num, den) == 2 * Abs(v * den - num) <= den

\* v is that rounding, or 1 where the rounding is 0
RoundedAtLeastOne(v, num, den) ==
    IF 2 * num < den THEN v = 1 ELSE Rounded(v, num, den)

\* C17: each axis of the raster is round(points / 72 x min(dpi, 150)) and at
\* least 1; when an axis exceeds 2000 both are scaled by 2000 / the larger
\* one, rounded and at least 1, so both end within 1..2000, the larger one at
\* 2000, and each within half a pixel of its exact share unless it is held
\* at 1.
C17_RasterSizeCap ==
    calc.op = "raster_size" =>
        LET rx == IF calc.in[3] < 150 THEN calc.in[3] ELSE 150
            ry == IF calc.in[4] < 150 THEN calc.in[4] ELSE 150
            roundx == (2 * calc.in[1] * rx + 72) \div 144
            roundy == (2 * calc.in[2] * ry + 72) \div 144
            w == IF roundx < 1 THEN 1 ELSE roundx
            h == IF roundy < 1 THEN 1 ELSE roundy
            larger == IF w > h THEN w ELSE h
        IN  IF w <= 2000 /\ h <= 2000
            THEN calc.out = <<w, h>>
            ELSE /\ calc.out[1] \in 1..2000
                 /\ calc.out[2] \in 1..2000
                 /\ 2000 \in {calc.out[1], calc.out[2]}
                 /\ RoundedAtLeastOne(calc.out[1], w * 2000, larger)
                 /\ RoundedAtLeastOne(calc.out[2], h * 2000, larger)

\* a 20 x 40 inch page at 600 dpi: 3000 x 6000 at 150 dpi, scaled to 1000 x 2000
C17_Witness ==
    /\ calc.op = "raster_size"
    /\ calc.in = <<1440, 2880, 600, 600>>
    /\ calc.out = <<1000, 2000>>

\* the smaller of printable_w / width and printable_h / height is below 1/100
FloorApplies(printable_w, printable_h, width, height) ==
    100 * printable_w < width \/ 100 * printable_h < height

\* dest is the bitmap times one scale num / den, and its origin centres it
Centred(offset, printable, dest, origin) ==
    LET margin == printable - dest
        left == origin - offset
    IN  IF margin >= 0 THEN margin - 2 * left \in {0, 1} ELSE margin - 2 * left \in {-1, 0}

FitBy(num, den) ==
    /\ Rounded(calc.out[3], calc.in[5] * num, den)
    /\ Rounded(calc.out[4], calc.in[6] * num, den)
    /\ Centred(calc.in[3], calc.in[1], calc.out[3], calc.out[1])
    /\ Centred(calc.in[4], calc.in[2], calc.out[4], calc.out[2])

FitScaled ==
    IF FloorApplies(calc.in[1], calc.in[2], calc.in[5], calc.in[6])
    THEN FitBy(1, 100)
    ELSE IF calc.in[1] * calc.in[6] <= calc.in[2] * calc.in[5]
    THEN FitBy(calc.in[1], calc.in[5])
    ELSE FitBy(calc.in[2], calc.in[6])

\* C18 as stated: for every printable area and bitmap the destination is the
\* bitmap times max(0.01, min(ratios)), centred, and no larger than the
\* printable area on at least one axis
C18_FitsOneAxis ==
    calc.op = "fit" =>
        /\ FitScaled
        /\ calc.out[3] <= calc.in[1] \/ calc.out[4] <= calc.in[2]

\* C18: the destination is the bitmap times max(0.01, min(ratios)) on both
\* axes, centred with the margin halved toward zero; it equals the printable
\* size on the axis of the smaller ratio, so is no larger than the printable
\* area on one axis, whenever that ratio is at least 0.01.
C18_Fit ==
    calc.op = "fit" =>
        /\ FitScaled
        /\ ~FloorApplies(calc.in[1], calc.in[2], calc.in[5], calc.in[6]) =>
              /\ calc.out[3] <= calc.in[1] /\ calc.out[4] <= calc.in[2]
              /\ calc.out[3] = calc.in[1] \/ calc.out[4] = calc.in[2]

\* a 1275 x 2000 bitmap on a 2400 x 3300 printable area: the height binds
C18_Witness ==
    /\ calc.op = "fit"
    /\ calc.in = <<2400, 3300, 75, 75, 1275, 2000>>
    /\ calc.out = <<223, 75, 2104, 3300>>

(***************************************************************************)
(* Properties of the Linux backend's parsers (SpecPrint, SpecCalc).        *)
(***************************************************************************)
\* where the text after the first marker starts, 0 when there is no marker
AfterMarker(s) ==
    LET starts == {i \in 1..Len(s) : i + Len(Marker) - 1 <= Len(s)
                                      /\ \A j \in 1..Len(Marker) : s[i + j - 1] = Marker[j]}
    IN  IF starts = {} THEN 0
        ELSE Len(Marker) + CHOOSE i \in starts : \A j \in starts : i <= j

\* the parts of s that are the text after the last hyphen (or all) of the
\* first whitespace-delimited token at or after position `from`
IdParts(s, from) ==
    UNION { UNION { { SubSeq(s, k, b) :
                        k \in {i \in a..(b + 1) :
                                  /\ i = a \/ s[i - 1] = "-"
                                  /\ \A j \in i..b : s[j] # "-"} } :
                    b \in {i \in a..Len(s) :
                              /\ \A j \in a..i : s[j] \notin Whitespace
                              /\ i = Len(s) \/ s[i + 1] \in Whitespace} } :
            a \in {i \in from..Len(s) :
                      /\ s[i] \notin Whitespace
                      /\ \A j \in from..(i - 1) : s[j] \in Whitespace} }

DigitsOf(part) == IF part # <<>> /\ part[1] = "+" THEN Tail(part) ELSE part

\* decimal digits, after an optional '+', of a number below 2^32
IsU32(part) ==
    /\ DigitsOf(part) # <<>>
    /\ \A i \in 1..Len(DigitsOf(part)) : \E d \in 1..10 : Digits[d] = DigitsOf(part)[i]
    /\ NumeralLeq(Numeral(DigitsOf(part)), U32_MAX)

\* C19: the job id of a successful Linux print is the number written after
\* the last hyphen of the first token that follows the first
\* 'request id is '; it is absent exactly when there is no marker, no token,
\* or that part is no decimal number below 2^32; the call is Ok either way.
C19_JobId ==
    (lp.state = "returned" /\ lp.status = "success") =>
        LET s == lp.stdout
            from == AfterMarker(s)
            ids == IF from = 0 THEN {} ELSE {p \in IdParts(s, from) : IsU32(p)}
        IN  /\ lp.result.ok
            /\ ids = {} => lp.result.value.job_id = NoJob
            /\ \A p \in ids : lp.result.value.job_id = SomeJob(Numeral(DigitsOf(p)))

\* a printer name with a hyphen in it: the id is what follows the last one
C19_Witness ==
    /\ lp.state = "returned" /\ lp.result.ok
    /\ lp.stdout = Marker \o <<"H", "-", "P", "-", "7", "\n">>
    /\ lp.result.value.job_id = SomeJob(<<"7">>)

Starred(output) ==
    \E i \in 1..Len(output) : \E j \in 1..Len(output[i].tokens) :
        output[i].tokens[j][1] = "*"

Defaults(options) == {i \in 1..Len(options) : options[i].is_default}

\* C20: parsing the same text again yields the same list, and the list
\* parsed from a text with a '*'-marked token has exactly one default option.
C20_OneDefault ==
    calc.op = "parse_media_options" =>
        /\ parse_media_options(calc.in) = calc.out
        /\ Starred(calc.in) => Cardinality(Defaults(calc.out)) = 1

\* the keyword of an option line: what stands before the first '/' of its head
Keyword(line) ==
    LET at == Find(line.head, <<"/">>)
    IN  IF at = 0 THEN line.head ELSE SubSeq(line.head, 1, at - 1)

MediaKeywords ==
    { <<"m", "e", "d", "i", "a">>, <<"M", "e", "d", "i", "a">>,
      <<"P", "a", "g", "e", "S", "i", "z", "e">> }

\* the lines of the media or page-size option that carry a token
MediaLines(output) ==
    {i \in 1..Len(output) :
        Keyword(output[i]) \in MediaKeywords /\ output[i].colon /\ output[i].tokens # <<>>}

\* option is what the token '[*]id[/label]' says
IsOptionOf(option, token) ==
    LET stars == {n \in 0..Len(token) :
                    /\ \A i \in 1..n : token[i] = "*"
                    /\ n < Len(token) => token[n + 1] # "*"}
        raw == SubSeq(token, (CHOOSE n \in stars : TRUE) + 1, Len(token))
    IN  /\ option.is_default = (token[1] = "*")
        /\ IF \E i \in 1..Len(raw) : raw[i] = "/"
           THEN /\ option.id \o <<"/">> \o option.label = raw
                /\ \A i \in 1..Len(option.id) : option.id[i] # "/"
           ELSE option.id = raw /\ option.label = raw

\* C32: the options are those of the first line of the media or page-size
\* option (keyword media, Media or PageSize, not a longer keyword that starts
\* with one of them) that has a token, one option per token in order, the
\* label equal to the id when the token has no '/label'; with no such line
\* the list is empty
C32_MediaLineOnly ==
    calc.op = "parse_media_options" =>
        LET lines == MediaLines(calc.in)
        IN  IF lines = {} THEN calc.out = <<>>
            ELSE LET tokens == calc.in[CHOOSE i \in lines : \A j \in lines : i <= j].tokens
                 IN  /\ Len(calc.out) = Len(tokens)
                     /\ \A j \in 1..Len(tokens) : IsOptionOf(calc.out[j], tokens[j])

(***************************************************************************)
(* Properties of the Linux submission (SpecPrint).                         *)
(***************************************************************************)
\* C21 as stated: print_pdf's return does not wait for lp to exit, so from the
\* moment the child is spawned the call is able to return
C21_ReturnDoesNotWait ==
    lp.state = "waiting" => ENABLED linux_print_pdf_return

\* C21: Linux print_pdf returns only after the lp child it spawned has exited;
\* a call that spawned lp never returns while the child runs, and it returns
\* Ok exactly when the child exited successfully
C21_ReturnWaitsForExit ==
    (lp.state = "returned" /\ lp.status # "not_run" /\ lp.os # <<>>) =>
        /\ lp.child = "exited"
        /\ lp.result.ok <=> lp.status = "success"

C21_Witness ==
    /\ lp.state = "returned"
    /\ lp.child = "exited"
    /\ lp.result.ok
    /\ lp.stdout # <<>>

(***************************************************************************)
(* Properties of the lp command line (SpecCalc).                           *)
(***************************************************************************)
HasOption(args, flag, value) ==
    \E i \in 1..(Len(args) - 1) : args[i] = flag /\ args[i + 1] = value
HasValue(args, key) ==
    \E i \in 1..Len(args) : args[i][1] = key

\* C25: the lp command carries "-n <copies>" exactly when copies > 1,
\* "-o sides=two-sided-long-edge" / "-o sides=two-sided-short-edge" exactly for
\* duplex "long" / "short" and no sides option for any other duplex value,
\* "-o media=<paper>" exactly when the paper size is non-empty; a command is
\* built for every request and its last argument is the file path
C25_LpCommand ==
    calc.op = "lp_args" =>
        LET o == calc.in
            args == calc.out
        IN  /\ (o.copies # NoCopies /\ o.copies[1] > 1)
                  <=> HasOption(args, <<"-n">>, u32_to_string(o.copies[1]))
            /\ (o.copies = NoCopies \/ o.copies[1] <= 1) => ~HasValue(args, "-n")
            /\ o.duplex = "long"
                  <=> HasOption(args, <<"-o">>, <<"sides=", "two-sided-long-edge">>)
            /\ o.duplex = "short"
                  <=> HasOption(args, <<"-o">>, <<"sides=", "two-sided-short-edge">>)
            /\ o.duplex \notin {"long", "short"} => ~HasValue(args, "sides=")
            /\ (o.paper_size \notin {None, ""})
                  <=> HasOption(args, <<"-o">>, <<"media=", o.paper_size>>)
            /\ o.paper_size \in {None, ""} => ~HasValue(args, "media=")
            /\ args # <<>>
            /\ args[Len(args)] = <<o.path>>

C25_Witness ==
    /\ calc.op = "lp_args"
    /\ calc.in.copies = <<1>>
    /\ calc.in.duplex = "both"
    /\ calc.in.paper_size = ""
    /\ calc.in.printer_name = "PrinterA"
    /\ calc.out = <<<<"-d">>, <<"PrinterA">>, <<"doc.pdf">>>>

(***************************************************************************)
(* Properties of the dispatch to the backends (SpecDispatch).              *)
(***************************************************************************)
LinuxCommands == {"lp", "lpstat -p", "lpstat -d", "lpoptions"}
OsCalls == UNION {{thr[t].os[i] : i \in 1..Len(thr[t].os)} : t \in Threads}
             \cup {req.os[i] : i \in 1..Len(req.os)}
             \cup {lp.os[i] : i \in 1..Len(lp.os)}
BytesReturned(t) == calls[t].result.error # "pending"

\* what a target without backend answers to each operation
C22_Unsupported ==
    target = "other" =>
        /\ req.state = "returned" => req.result.error = "UnsupportedPlatform"
        /\ \A t \in Threads :
            /\ thr[t].pc = "done" => thr[t].ret = UnsupportedPlatform
            /\ BytesReturned(t) => calls[t].result.error = "UnsupportedPlatform"

\* C22: an operation is served by the backend of the build target and by no
\* other (Windows never runs the spooler's commands, Linux never touches the
\* Windows worker, caches or platform calls; a target without backend runs
\* nothing), and on a target without backend each of print_pdf,
\* print_pdf_bytes, get_printers, get_default_printer, get_printer_media
\* returns UnsupportedPlatform
C22_StaticDispatch ==
    /\ C22_Unsupported
    /\ target = "other" => OsCalls = {} /\ worker = IdleWorker /\ lp = IdleLp
    /\ target = "windows" => OsCalls \cap LinuxCommands = {} /\ lp = IdleLp
    /\ target = "linux" =>
        /\ OsCalls \subseteq LinuxCommands \cup {"remove_file"}
        /\ worker = IdleWorker /\ req = NewRequest
        /\ PRINTER_CACHE = <<>> /\ \A k \in MediaKeys : MEDIA_CACHE[k] = <<>>
    /\ target \in Targets =>
        /\ req.result.error # "UnsupportedPlatform"
        /\ \A t \in Threads :
            /\ thr[t].pc = "done" => thr[t].ret # UnsupportedPlatform
            /\ calls[t].result.error # "UnsupportedPlatform"

(***************************************************************************)
(* Properties of the macOS print automation (SpecPreview).                 *)
(***************************************************************************)
DialogEnded == preview.dialog \in {"printed", "cancelled", "error"}

\* C23: once the print dialog has ended (printed, cancelled or failed) the
\* script goes on to its end, after which the document is closed (by the close
\* of the document or, when that failed, by the close of window 1) and the
\* viewer has quit exactly when no window remains open
C23_ClosedAfterDialog ==
    /\ DialogEnded => preview.pc # "aborted"
    /\ (DialogEnded /\ preview.pc = "done") =>
        /\ preview.doc # "open"
        /\ \E i \in 1..Len(preview.log) : preview.log[i] = "close theDoc"
        /\ ~preview.running <=> WindowCount(preview) = 0

(***************************************************************************)
(* Properties of the Linux printer listing (SpecCalc).                     *)
(***************************************************************************)
\* name is the first whitespace-delimited word after the `printer ` prefix
IsNameOf(name, line) ==
    /\ name # <<>>
    /\ \A i \in 1..Len(name) : name[i] \notin Whitespace
    /\ \E a \in (Len(PrinterPrefix) + 1)..Len(line) :
        /\ \A i \in (Len(PrinterPrefix) + 1)..(a - 1) : line[i] \in Whitespace
        /\ a + Len(name) - 1 <= Len(line)
        /\ SubSeq(line, a, a + Len(name) - 1) = name
        /\ a + Len(name) <= Len(line) => line[a + Len(name)] \in Whitespace

PrinterLines(lines) ==
    {i \in 1..Len(lines) :
        /\ StartsWith(lines[i], PrinterPrefix)
        /\ \E j \in (Len(PrinterPrefix) + 1)..Len(lines[i]) : lines[i][j] \notin Whitespace}

Nth(S, k) == CHOOSE i \in S : Cardinality({j \in S : j < i}) = k - 1

\* the name on the first `system default destination: ` line of a successful
\* `lpstat -d`, None without one
ParsedDefault(lpstat_d) ==
    LET lines == Lines(lpstat_d.stdout)
        at == {i \in 1..Len(lines) : StartsWith(lines[i], DefaultPrefix)}
    IN  IF ~lpstat_d.ran \/ ~lpstat_d.success \/ at = {} THEN None
        ELSE Trim(StripPrefix(lines[Nth(at, 1)], DefaultPrefix))

\* C24: the printers listed are, in output order, one per line of the status
\* output that starts with `printer ` and goes on with a name; the status is
\* "disabled" when the line contains `disabled`, else "printing" when it
\* contains `printing`, else "idle"; is_default holds exactly of the printers
\* named on the `system default destination: ` line
C24_PrinterListing ==
    calc.op = "get_printers" =>
        LET lines == Lines(calc.in[1])
            from == PrinterLines(lines)
            default == ParsedDefault(calc.in[2])
            out == calc.out
        IN  /\ Len(out) = Cardinality(from)
            /\ \A k \in 1..Len(out) :
                LET line == lines[Nth(from, k)]
                IN  /\ IsNameOf(out[k].name, line)
                    /\ Contains(line, DisabledWord) => out[k].status = "disabled"
                    /\ (~Contains(line, DisabledWord) /\ Contains(line, PrintingWord))
                          => out[k].status = "printing"
                    /\ (~Contains(line, DisabledWord) /\ ~Contains(line, PrintingWord))
                          => out[k].status = "idle"
                    /\ out[k].is_default <=> (default # None /\ out[k].name = default)

C24_Witness ==
    /\ calc.op = "get_printers"
    /\ calc.in[1] = <<"p", "r", "i", "n", "t", "e", "r", " ", "H", "P", " ", "i", "s", " ", "i", "d", "l", "e", ".", "\n", "p", "r", "i", "n", "t", "e", "r", " ", "B", " ", "d", "i", "s", "a", "b", "l", "e", "d", ",", " ", "w", "a", "s", " ", "p", "r", "i", "n", "t", "i", "n", "g", "\n">>
    /\ calc.in[2].stdout = <<"x", "\n", "s", "y", "s", "t", "e", "m", " ", "d", "e", "f", "a", "u", "l", "t", " ", "d", "e", "s", "t", "i", "n", "a", "t", "i", "o", "n", ":", " ", " ", "B", " ", "\n">>
    /\ calc.out = <<PrinterInfo(<<"H", "P">>, FALSE, "idle"),
                    PrinterInfo(<<"B">>, TRUE, "disabled")>>

(***************************************************************************)
(* Properties of FileBuffer and sanitize_filename (SpecCalc).              *)
(***************************************************************************)
Newlines(content) == {i \in 1..Len(content) : content[i] = "\n"}

\* the lines of a content: one per newline, and one more for what follows
\* the last newline when that is not empty
NumberOfLines(content) ==
    Cardinality(Newlines(content))
        + (IF content # <<>> /\ content[Len(content)] # "\n" THEN 1 ELSE 0)

\* C27: get_stats().line_count is the number of lines of the content, a last
\* line without newline counted: k lines give k with or without a final newline
C27_LineCount ==
    calc.op = "line_count" => calc.out = NumberOfLines(calc.in)

\* the first and the last position of line n (its newline included)
LineFirst(content, n) ==
    IF n = 1 THEN 1
    ELSE 1 + CHOOSE i \in Newlines(content) :
                Cardinality({j \in Newlines(content) : j < i}) = n - 2
LineLast(content, n) ==
    IF n <= Cardinality(Newlines(content))
    THEN CHOOSE i \in Newlines(content) :
            Cardinality({j \in Newlines(content) : j < i}) = n - 1
    ELSE Len(content)

\* C28: get_line_range(start, end) with 1 <= start <= end <= number of lines
\* succeeds with exactly the text of the lines start..end, each with its
\* newline when it has one, and nothing of line end+1
C28_LineRange ==
    calc.op = "get_line_range" =>
        LET content == calc.in[1]
            start_line == calc.in[2]
            end_line == calc.in[3]
        IN  (/\ IsUtf8(content)
             /\ 1 <= start_line /\ start_line <= end_line
             /\ end_line <= NumberOfLines(content)) =>
                /\ calc.out.ok
                /\ calc.out.value = SubSeq(content, LineFirst(content, start_line),
                                           LineLast(content, end_line))

\* C33: get_line_range answers start_line = 0, start_line > end_line and a
\* line number beyond the file with an error, and whenever it slices the
\* content the slice is within it: start byte <= end byte <= content length,
\* the value holding exactly that many bytes
C33_RangeChecked ==
    calc.op = "get_line_range" =>
        LET content == calc.in[1]
            start_line == calc.in[2]
            end_line == calc.in[3]
            first == get_line_byte_range(FileBuffer(content), start_line)
            last == get_line_byte_range(FileBuffer(content), end_line)
        IN  /\ (\/ start_line = 0
                \/ start_line > end_line
                \/ start_line > NumberOfLines(content)
                \/ end_line > NumberOfLines(content)) => ~calc.out.ok
            /\ (first.ok /\ last.ok /\ start_line <= end_line) =>
                  /\ first.value[1] <= last.value[2]
                  /\ last.value[2] <= Len(content)
                  /\ calc.out.ok => Len(calc.out.value) = last.value[2] - first.value[1]
            /\ calc.out.ok => first.ok /\ last.ok /\ start_line <= end_line

C33_Witness ==
    /\ calc.op = "get_line_range"
    /\ calc.in = << <<"a", "\n", "\n">>, 1, 2 >>
    /\ calc.out = RsOk(<<"a", "\n", "\n">>)

\* a <= b for matches: by line, then by column
MatchLeq(a, b) == a.line < b.line \/ (a.line = b.line /\ a.column <= b.column)

\* C29: for a valid pattern and any max_results, 0 included, search returns at
\* most max_results matches: the first max_results of all the matches, which
\* are ordered by line and column and carry line numbers from 1
C29_SearchLimit ==
    calc.op = "search" =>
        LET content == calc.in[1]
            pattern == calc.in[2]
            max_results == calc.in[3]
            all == MatchesFrom(Lines(content), pattern, 1)
        IN  pattern # InvalidPattern =>
                /\ calc.out.ok
                /\ Len(calc.out.value) <= max_results
                /\ calc.out.value = SubSeq(all, 1, Min(max_results, Len(all)))
                /\ \A i \in 1..Len(calc.out.value) :
                    /\ calc.out.value[i].line >= 1
                    /\ \A j \in i..Len(calc.out.value) :
                        MatchLeq(calc.out.value[i], calc.out.value[j])

\* the segments between the slashes of a name
RECURSIVE Segments(_)
Segments(name) ==
    LET at == Find(name, <<"/">>)
    IN  IF at = 0 THEN <<name>>
        ELSE <<SubSeq(name, 1, at - 1)>> \o Segments(SubSeq(name, at + 1, Len(name)))

\* a name without its slashes and without its `..` segments
RECURSIVE WithoutTraversal(_)
WithoutTraversal(segments) ==
    IF segments = <<>> THEN <<>>
    ELSE (IF Head(segments) = <<".", ".">> THEN <<>> ELSE Head(segments))
         \o WithoutTraversal(Tail(segments))

\* C30: sanitize_filename drops every character of a traversal segment (the
\* slashes and the dots of `..`) and keeps the permitted characters of the
\* rest in order: "../../etc/passwd" gives "etcpasswd", and
\* "normal-file_123.pdf" is unchanged
C30_NoTraversal ==
    calc.op = "sanitize_filename" =>
        calc.out = SelectSeq(WithoutTraversal(Segments(calc.in)), Kept)

(***************************************************************************)
(* Properties of the file buffer store (SpecWasm).                         *)
(***************************************************************************)
\* C26: no file id is returned twice by create_file_buffer, whatever was
\* freed in between, and every id returned and not freed refers to a buffer
\* of exactly the content it was created with, which is what get_content
\* reads back
C26_UniqueFileIds ==
    /\ \A i, j \in 1..Len(wasm.returned) : i # j => wasm.returned[i] # wasm.returned[j]
    /\ \A i \in 1..Len(wasm.returned) :
        LET file_id == wasm.returned[i]
        IN  file_id \notin wasm.freed =>
                /\ wasm.buffers[file_id] = <<FileBuffer(wasm.made[i])>>
                /\ (wasm.last.op = "get_content" /\ wasm.last.id = file_id
                        /\ IsUtf8(wasm.made[i]))
                      => wasm.last.result = RsOk(wasm.made[i])

C26_Witness ==
    /\ Len(wasm.returned) = 3
    /\ wasm.returned[1] \in wasm.freed
    /\ wasm.returned[2] \in wasm.freed
    /\ wasm.returned[3] \notin wasm.freed
    /\ wasm.last.op = "get_content"
    /\ wasm.last.id = wasm.returned[3]
    /\ wasm.last.result.ok

(***************************************************************************)
(* The order of the GDI calls of a job (SpecPrint).                        *)
(***************************************************************************)
\* the calls that take the device context
GdiOps == {"GetDeviceCaps", "StartDocW", "SetStretchBltMode", "StartPage",
           "StretchDIBits", "EndPage", "EndDoc", "DeleteDC"}

IsGdiCall(entry) == entry.op \in GdiOps

\* the device-context calls of the job so far, as <<op, page>>
GdiCalls ==
    LET gdi == SelectSeq(worker.log, IsGdiCall)
    IN  [i \in 1..Len(gdi) |-> <<gdi[i].op, gdi[i].page>>]

\* StartPage, one stretch-blit, EndPage for each of the pages first..n-1
RECURSIVE GdiPageCalls(_, _)
GdiPageCalls(first, n) ==
    IF first >= n THEN <<>>
    ELSE <<<<"StartPage", first>>, <<"StretchDIBits", first>>, <<"EndPage", first>>>>
         \o GdiPageCalls(first + 1, n)

JobSucceeded == worker.pc = "done" /\ worker.result.ok

\* C31: the device-context calls of a successful job are: the capabilities
\* read once, StartDoc once, the stretch mode, then for each page 0..n-1 in
\* order StartPage, one StretchDIBits, EndPage, then EndDoc once and DeleteDC
\* last; every one of them succeeded
C31_GdiCallOrder ==
    JobSucceeded =>
        /\ GdiCalls = <<<<"GetDeviceCaps", -1>>, <<"StartDocW", -1>>,
                        <<"SetStretchBltMode", -1>>>>
                      \o GdiPageCalls(0, worker.page_count)
                      \o <<<<"EndDoc", -1>>, <<"DeleteDC", -1>>>>
        /\ \A i \in 1..Len(worker.log) : IsGdiCall(worker.log[i]) => worker.log[i].ok

C31_Witness ==
    /\ JobSucceeded
    /\ worker.page_count = MaxPages
    /\ Len(GdiCalls) = 5 + 3 * MaxPages

\* the buffers held by the store
Held == {id \in FileIds : wasm.buffers[id] # NoBuffer}

\* line_offsets is 0 followed, in increasing order, by i + 1 for the newlines
\* at the (0-based) positions i of content, and by nothing else
IndexOf(line_offsets, content) ==
    /\ Len(line_offsets) >= 1
    /\ line_offsets[1] = 0
    /\ \A k \in 1..(Len(line_offsets) - 1) : line_offsets[k] < line_offsets[k + 1]
    /\ {line_offsets[k] : k \in 2..Len(line_offsets)}
          = {i \in 1..Len(content) : content[i] = "\n"}
    /\ \A k \in 1..Len(line_offsets) : line_offsets[k] <= Len(content)

Line123 ==
    <<"l", "i", "n", "e", "1", "\n", "l", "i", "n", "e", "2", "\n", "l", "i", "n", "e", "3">>

C34_IndexOfHeld ==
    /\ \A id \in Held :
          IndexOf(wasm.buffers[id][1].line_offsets, wasm.buffers[id][1].content)
    /\ index_lines(Line123) = <<0, 6, 12>>

C34_IndexKept ==
    \A id \in Held : wasm.buffers'[id] # NoBuffer => wasm.buffers'[id] = wasm.buffers[id]

\* C34: the index of every buffer held starts with 0, is strictly increasing,
\* holds i + 1 for each newline at position i and nothing else, and no entry
\* exceeds the content length ("line1\nline2\nline3" gives 0, 6, 12); no call
\* changes the index or the content of a buffer that stays in the store
C34_LineIndex == []C34_IndexOfHeld /\ [][C34_IndexKept]_vars

C34_Witness ==
    /\ \E id \in Held : Len(wasm.buffers[id][1].line_offsets) = 3
    /\ wasm.last.op = "get_file_info"
    /\ wasm.last.result.ok
    /\ wasm.freed # {}


\* the calls that read one buffer
ReadOps == {"get_file_info", "get_line_range", "search_file", "validate_json",
            "format_json", "get_content"}

\* the ids created and not freed since (freed holds the ids whose buffer a
\* free_file_buffer call removed)
Live == {wasm.returned[i] : i \in 1..Len(wasm.returned)} \ wasm.freed

C35_FreedIsGone ==
    /\ (wasm.last.op \in ReadOps /\ wasm.last.id \in wasm.freed) =>
          wasm.last.result = RsErr("not found")
    /\ wasm.last.op = "get_memory_stats" =>
          wasm.last.result.value.file_count = Cardinality(Live)
    /\ wasm.last.op = "free_file_buffer" =>
          wasm.last.result.ok /\ wasm.buffers[wasm.last.id] = NoBuffer

C35_FreeFrame ==
    free_file_buffer =>
        /\ \A id \in FileIds \ {wasm'.last.id} : wasm'.buffers[id] = wasm.buffers[id]
        /\ wasm'.next = wasm.next
        /\ wasm.buffers[wasm'.last.id] = NoBuffer => wasm'.buffers = wasm.buffers

\* C35: after free_file_buffer(id) every call that reads buffer id fails with
\* "File not found"; the call leaves every other buffer as it was, succeeds
\* on an unknown or already freed id without changing the store, and
\* get_memory_stats' file_count is the number of ids created and not freed
C35_FreeRemovesOne == []C35_FreedIsGone /\ [][C35_FreeFrame]_vars

C35_Witness ==
    /\ wasm.last.op = "format_json"
    /\ wasm.last.id \in wasm.freed
    /\ \E i \in 1..Len(wasm.returned) : wasm.returned[i] = wasm.last.id
    /\ Live # {}


(***************************************************************************)
(* Properties of concurrent cache misses (SpecRace).                       *)
(***************************************************************************)
\* C36 as stated: a store never replaces the cached list by the result of an
\* enumeration that began before the one whose result is cached, and the
\* fetched_at it writes is not later than the moment the list was read
C36_NoOlderResult ==
    [][\A t \in Threads :
          set_cached_printers(t) =>
              /\ PRINTER_CACHE'[1].fetched_at <= thr[t].read_at
              /\ PRINTER_CACHE # <<>> =>
                    thr[t].enum_at >= lastOk[EnumKey("printers")]]_vars

C36_Store ==
    \A t \in Threads :
        set_cached_printers(t) =>
            /\ PRINTER_CACHE' = <<Cache(thr[t].result, now)>>
            /\ thr[t].at <= thr[t].enum_at
            /\ thr[t].enum_at <= thr[t].read_at
            /\ thr[t].read_at <= now

C36_Serve ==
    \A t \in Threads :
        (get_cached_printers(t) /\ thr'[t].hit) =>
            /\ now - PRINTER_CACHE[1].fetched_at <= CACHE_TTL
            /\ thr'[t].ret = DirOk(PRINTER_CACHE[1].value)

\* C36: under concurrent cache misses every caller stores the list it read
\* itself, stamped with the time of the store, which is not earlier than the
\* moment the list was read; the last store wins, whichever enumeration began
\* first; a list served from the cache was stored at most 30 s before
C36_LastStoreWins == [][C36_Store /\ C36_Serve]_vars

\* both callers missed, and the list in the cache is the one whose
\* enumeration began first, stored after the other
C36_Witness ==
    \E t, u \in Threads :
        /\ thr[t].pc = "done" /\ thr[t].stored
        /\ thr[u].pc = "done" /\ thr[u].stored
        /\ PRINTER_CACHE # <<>>
        /\ lastOk[EnumKey("printers")] = thr[t].enum_at
        /\ thr[t].enum_at < thr[u].enum_at
        /\ thr[u].read_at < PRINTER_CACHE[1].fetched_at


(***************************************************************************)
(* The printer of a Windows request (SpecPrint).                           *)
(***************************************************************************)
\* C37: for a request that passed the path check: without a printer name the
\* default printer is queried and is the printer of the worker and of the
\* result; without a default printer the call returns PrinterLookupFailed
\* and no worker is started; with a printer name the default printer is not
\* queried and the printer of the worker and of the result is the name given
C37_PrinterResolved ==
    (req.state = "returned" /\ req.path_exists) =>
        IF req.printer_name # None
        THEN /\ req.os = <<>>
             /\ req.result.ok
             /\ req.result.value.printer = req.printer_name
             /\ worker.printer = req.printer_name
             /\ worker.spawned = 1
        ELSE /\ req.os = <<"GetDefaultPrinterW">>
             /\ IF req.default # None
                THEN /\ req.result.ok
                     /\ req.result.value.printer = req.default
                     /\ worker.printer = req.default
                     /\ worker.spawned = 1
                ELSE /\ req.result.error = "PrinterLookupFailed"
                     /\ worker.spawned = 0
                     /\ worker.pc = "idle"

C37_Witness ==
    /\ req.state = "returned"
    /\ req.printer_name = None
    /\ req.default = "PrinterB"
    /\ worker.pc = "done"
    /\ worker.printer = "PrinterB"
    /\ worker.result.ok


(***************************************************************************)
(* Properties of the recent files list (SpecRecent).                       *)
(***************************************************************************)
SamePath(a, b) ==
    normalize_recent_path_for_compare(a, target = "windows")
        = normalize_recent_path_for_compare(b, target = "windows")

C38_WellFormed ==
    /\ Len(recent.files) <= RecentLimit
    /\ \A i, j \in 1..Len(recent.files) :
          i # j => ~SamePath(recent.files[i], recent.files[j])
    /\ IF recent.latest = <<>> THEN recent.files = <<>>
       ELSE recent.files # <<>> /\ recent.files[1] = recent.latest[1]
    /\ recent.last.op = "add" => recent.last.returned = recent.files
    /\ (recent.last.op = "add" /\ Trim(recent.last.path) = <<>>) => ~recent.last.changed

C38_BlankAdd ==
    (recent'.last.op = "add" /\ Trim(recent'.last.path) = <<>>) =>
        recent'.files = recent.files

\* C38: from the empty list, after any add and clear calls the list has at
\* most 15 entries, no two of them equal under
\* normalize_recent_path_for_compare, and the (trimmed) path of the last add
\* of a non-blank path since the last clear comes first; an add of an empty
\* or blank path leaves the list as it is and reports changed = false
C38_RecentList == []C38_WellFormed /\ [][C38_BlankAdd]_vars

\* the list is full, and another spelling of a file it holds is added
C38_Witness ==
    /\ Len(recent.files) = RecentLimit
    /\ recent.fresh > RecentLimit
    /\ recent.last.op = "add"
    /\ recent.last.changed
    /\ recent.last.path = <<" ", "/", "/", "?", "/", "\\", "\\", "a", "/">>
    /\ recent.files[1] = Trim(recent.last.path)
    /\ \E i \in 1..Len(recent.files) : recent.files[i] = <<"/", "A">>


(***************************************************************************)
(* Where the temporary PDF is written (SpecCalc).                          *)
(***************************************************************************)
\* the directories and the file a path leads through: empty and `.` segments
\* are skipped, `..` leaves the directory entered last
RECURSIVE Resolved(_, _)
Resolved(segments, at) ==
    IF segments = <<>> THEN at
    ELSE IF Head(segments) \in {<<>>, <<".">>} THEN Resolved(Tail(segments), at)
    ELSE IF Head(segments) = <<".", ".">>
    THEN Resolved(Tail(segments), IF at = <<>> THEN at ELSE SubSeq(at, 1, Len(at) - 1))
    ELSE Resolved(Tail(segments), Append(at, Head(segments)))

\* C39: for every filename the file save_temp_pdf and save_pdf_temp write is
\* a direct child of the temp directory, and its name starts with
\* "tidycode_" and holds no path separator
C39_InTempDir ==
    calc.op \in {"save_temp_pdf", "save_pdf_temp"} =>
        LET written == Resolved(Segments(calc.out), <<>>)
            dir == Resolved(Segments(TempDir), <<>>)
        IN  /\ Len(written) = Len(dir) + 1
            /\ SubSeq(written, 1, Len(dir)) = dir
            /\ StartsWith(written[Len(written)], TempPrefix)
            /\ \A i \in 1..Len(written[Len(written)]) :
                  written[Len(written)][i] \notin {"/", "\\"}
            /\ calc.out = TempDir \o <<"/">> \o written[Len(written)]

C39_Witness ==
    /\ calc.op = "save_temp_pdf"
    /\ calc.in = <<".", ".", "/", ".", ".", "/", "e", "t", "c", "/", "p", "a", "s", "s", "w", "d">>
    /\ calc.out = TempDir \o <<"/">> \o TempPrefix
                    \o <<".", ".", ".", ".", "e", "t", "c", "p", "a", "s", "s", "w", "d">>
====
